---- MODULE Spec2Model ----
(***************************************************************************)
(* Card generation backend (routes/card.js): the roster parser, the batch  *)
(* and single-card generation handlers, the archive they produce and the   *)
(* per-student generation ledger kept in the Student collection.           *)
(*                                                                         *)
(* Text is modelled as a sequence of one-character strings, so that the    *)
(* parser works on characters exactly as the JavaScript does.              *)
(***************************************************************************)
EXTENDS Integers, Sequences, FiniteSets, TLC

VARIABLES
    csvBuffer,      \* parseCSVFromBuffer: the raw roster text handed to the parser
    parsed,         \* parseCSVFromBuffer: the resolved student list
    parsePc,        \* "ready" before the call, "parsed" after it resolved
    db,             \* Student collection: student_id -> stored document
    db0,            \* the Student collection as it was before the requests
    assets,         \* asset store: number of photos registered (uploaded)
    clock,          \* the value new Date() returns next
    req,            \* per request: the submitted form (files, ids, documents)
    pc,             \* per request: the handler's position
    students,       \* per request: rows parsed from the roster
    photoMap,       \* per request: student_id -> uploaded photo reference
    savedStudents,  \* per request: documents that were saved, in roster order
    idx,            \* per request: index of the loop in progress (1-based)
    found,          \* per request: what findOne returned (<<>> is null, else <<doc>>)
    cards,          \* per request: the pair the compositor just returned
    archive,        \* per request: entries appended to the zip, in order
    res,            \* per request: what was done to the HTTP response
    generatedCount, \* per request: the handler's counter of generated cards
    hist,           \* per request: bookkeeping of what the handler has done
    addTextIn,      \* addText: the call's arguments (variant, text, coord)
    displayText,    \* addText: the string handed to ctx.fillText
    textPc,         \* addText: "ready" before the call, "drawn" after it returned
    job,            \* compositor: the call's arguments and what its image loads do
    canvas,         \* compositor: what has been drawn, loaded and returned
    composePc,      \* compositor: the await the call is at
    zipIn,          \* photo extractor: the archive buffer and its entries
    tasks,          \* photo extractor: per entry, where its processPhotoFile is
    photoCloudinaryMap, \* photo extractor: student_id -> uploaded photo reference
    extractPc,      \* photo extractor: "load", "awaiting" (Promise.all), "returned"
    fetchIn,        \* loadImageFromUrl: the URL and what its loads will do
    fetchRun,       \* loadImageFromUrl: the loadImage calls made, and the outcome
    fetchPc,        \* loadImageFromUrl: "try", "retry", "done"
    lineIn,         \* parseCSVLine: the line handed to the splitter
    lineOut,        \* parseCSVLine: the values it returned
    linePc,         \* parseCSVLine: "call" before the call, "returned" after it
    templateDb,     \* Template collection: template id -> stored document
    tReq,           \* per template request: what was submitted
    tRes,           \* per template request: the response sent
    tPc             \* per template request: the handler's position

parseVars == <<csvBuffer, parsed, parsePc>>
pipeVars  == <<db, db0, assets, clock, req, pc, students, photoMap,
               savedStudents, idx, found, cards, archive, res, generatedCount, hist>>
textVars  == <<addTextIn, displayText, textPc>>
composeVars == <<job, canvas, composePc>>
photoVars == <<zipIn, tasks, photoCloudinaryMap, extractPc>>
fetchVars == <<fetchIn, fetchRun, fetchPc>>
lineVars == <<lineIn, lineOut, linePc>>
templateVars == <<templateDb, tReq, tRes, tPc>>
unitVars  == <<textVars, composeVars, photoVars, fetchVars, lineVars, templateVars>>
vars      == <<csvBuffer, parsed, parsePc, db, db0, assets, clock, req, pc,
               students, photoMap, savedStudents, idx, found, cards, archive, res,
               generatedCount, hist, addTextIn, displayText, textPc, job, canvas,
               composePc, zipIn, tasks, photoCloudinaryMap, extractPc, fetchIn,
               fetchRun, fetchPc,
               lineIn, lineOut, linePc,
               templateDb, tReq, tRes, tPc>>

----------------------------------------------------------------------------
(* Bounds of the model. *)

\* Most lines in a roster buffer handed to the parser on its own.
MaxLines == 3
\* Most lines in the roster of a generation request.
MaxRoster == 2
\* Largest value of the clock; a handler step that reads the clock needs clock < MaxClock.
MaxClock == 4

----------------------------------------------------------------------------
(* Text helpers: String.prototype.split/trim/toLowerCase/includes/padStart. *)

NoChar == "undefined"

UpperChars == <<"A","B","C","D","E","F","G","H","I","J","K","L","M",
                "N","O","P","Q","R","S","T","U","V","W","X","Y","Z">>
LowerChars == <<"a","b","c","d","e","f","g","h","i","j","k","l","m",
                "n","o","p","q","r","s","t","u","v","w","x","y","z">>
DigitChars == <<"0","1","2","3","4","5","6","7","8","9">>

IsSpace(c) == c \in {" ", "\t", "\n"}

RECURSIVE SplitFrom(_, _, _)
SplitFrom(s, i, cur) ==
    IF i > Len(s) THEN <<cur>>
    ELSE IF s[i] = "\n" THEN <<cur>> \o SplitFrom(s, i + 1, <<>>)
    ELSE SplitFrom(s, i + 1, Append(cur, s[i]))

\* csvString.split('\n')
split(s) == SplitFrom(s, 1, <<>>)

trim(s) ==
    LET keep == {i \in 1..Len(s) : ~IsSpace(s[i])}
    IN  IF keep = {} THEN <<>>
        ELSE LET lo == CHOOSE i \in keep : \A j \in keep : i <= j
                 hi == CHOOSE i \in keep : \A j \in keep : j <= i
             IN  SubSeq(s, lo, hi)

toLowerChar(c) ==
    IF \E k \in 1..26 : UpperChars[k] = c
    THEN LowerChars[CHOOSE k \in 1..26 : UpperChars[k] = c]
    ELSE c

toLowerCase(s) == [i \in 1..Len(s) |-> toLowerChar(s[i])]

includes(s, sub) ==
    \E i \in 1..(Len(s) - Len(sub) + 1) : SubSeq(s, i, i + Len(sub) - 1) = sub

RECURSIVE toString(_)
toString(n) ==
    IF n < 10 THEN <<DigitChars[n + 1]>>
    ELSE toString(n \div 10) \o <<DigitChars[(n % 10) + 1]>>

padStart(s, n, c) ==
    IF Len(s) >= n THEN s ELSE [k \in 1..(n - Len(s)) |-> c] \o s

----------------------------------------------------------------------------
(* Text constants of the parser. *)

TokStudentId == <<"s","t","u","d","e","n","t","_","i","d">>
TokName      == <<"n","a","m","e">>
PrefixSTU    == <<"S","T","U">>
DefNA        == <<"N","/","A">>
DefName      == <<"U","n","k","n","o","w","n"," ","S","t","u","d","e","n","t">>
DefYear      == <<"2","0","2","4">>
DefPhone     == <<>>

----------------------------------------------------------------------------
(* parseCSVLine: the quote-aware splitter. *)

RECURSIVE ParseLineFrom(_, _, _, _, _)
ParseLineFrom(line, i, values, current, inQuotes) ==
    IF i > Len(line) THEN Append(values, trim(current))
    ELSE LET char     == line[i]
             nextChar == IF i + 1 <= Len(line) THEN line[i + 1] ELSE NoChar
         IN  IF char = "\"" /\ inQuotes /\ nextChar = "\""
             THEN ParseLineFrom(line, i + 2, values, Append(current, "\""), inQuotes)
             ELSE IF char = "\""
             THEN ParseLineFrom(line, i + 1, values, current, ~inQuotes)
             ELSE IF char = "," /\ ~inQuotes
             THEN ParseLineFrom(line, i + 1, Append(values, trim(current)), <<>>, inQuotes)
             ELSE ParseLineFrom(line, i + 1, values, Append(current, char), inQuotes)

\* a slip: the quotes are dropped before the line is cut
parseCSVLine_Unquoted(line) ==
    ParseLineFrom(SelectSeq(line, LAMBDA c : c # "\""), 1, <<>>, <<>>, FALSE)

parseCSVLine(line) == ParseLineFrom(line, 1, <<>>, <<>>, FALSE)

\* values[k] || dflt, with k the JavaScript (0-based) index
ValueOr(values, k, dflt) ==
    IF k + 1 <= Len(values) /\ values[k + 1] # <<>> THEN values[k + 1] ELSE dflt

\* `STU${i.toString().padStart(3, '0')}`
FallbackId(i) == PrefixSTU \o padStart(toString(i), 3, "0")

DefaultAcademicYear == DefYear

\* the student object built from one row; i is the row's 0-based index in lines
StudentOfLine(line, i) ==
    LET values == parseCSVLine(line)
    IN  [ student_id    |-> ValueOr(values, 0, FallbackId(i)),
          name          |-> ValueOr(values, 1, DefName),
          class         |-> ValueOr(values, 2, DefNA),
          level         |-> ValueOr(values, 3, DefNA),
          residence     |-> ValueOr(values, 4, DefNA),
          gender        |-> ValueOr(values, 5, DefNA),
          academic_year |-> ValueOr(values, 6, DefaultAcademicYear),
          parent_phone  |-> ValueOr(values, 7, DefPhone) ]

\* lines of the buffer that are not blank: split('\n').filter(line => line.trim())
NonBlankLines(buf) == SelectSeq(split(buf), LAMBDA l : trim(l) # <<>>)

\* 1 when the first line names a column (student_id or name), else 0
StartIndex(lines) ==
    LET firstLine == toLowerCase(lines[1])
    IN  IF includes(firstLine, TokStudentId) \/ includes(firstLine, TokName)
        THEN 1 ELSE 0

RECURSIVE ParseRows(_, _)
ParseRows(lines, i) ==
    IF i >= Len(lines) THEN <<>>
    ELSE LET line == trim(lines[i + 1])
         IN  IF line = <<>> THEN ParseRows(lines, i + 1)
             ELSE <<StudentOfLine(line, i)>> \o ParseRows(lines, i + 1)

parseCSVFromBuffer(buf) ==
    LET lines == NonBlankLines(buf)
    IN  IF Len(lines) = 0 THEN <<>>
        ELSE ParseRows(lines, StartIndex(lines))

----------------------------------------------------------------------------
(* Roster inputs. *)

HeaderLine  == <<"s","t","u","d","e","n","t","_","i","d",",","n","a","m","e">>
HeaderCaps  == <<"I","D",",","N","a","m","e",",","C","l","a","s","s">>
JaneLine    == <<"S","T","U","0","0","1",",","J","a","n","e"," ","D","o","e",",","P","5",",",",",",",",",",">>
QuotedLine  == <<"\"","S","4","\"",",","\"","a",",","b","\"",",","\"","x","\"","\"","y","\"">>
BlankIdLine == <<",","B","o",",","P","1",",","L","2",",","K","i","g","a","l","i",",","F",",","2","0","2","5",",","0","7","8">>
ShortLine   == <<" ","S","2"," ">>
SpaceLine   == <<" "," ">>
S1Line      == <<"S","1",",","A","l">>
S2Line      == <<"S","2",",","B","o">>

RosterLines == {HeaderLine, HeaderCaps, JaneLine, QuotedLine, BlankIdLine,
                ShortLine, SpaceLine, <<>>}

SeqsUpTo(S, n) == UNION {[1..k -> S] : k \in 0..n}

RECURSIVE JoinLines(_)
JoinLines(ls) ==
    IF Len(ls) = 0 THEN <<>>
    ELSE IF Len(ls) = 1 THEN ls[1]
    ELSE ls[1] \o <<"\n">> \o JoinLines(Tail(ls))

RosterBuffers == {JoinLines(ls) : ls \in SeqsUpTo(RosterLines, MaxLines)}

----------------------------------------------------------------------------
(* Documents of the Student collection (models/Student.js).  A date is a    *)
(* clock value; 0 stands for a date that is not set.                        *)

Sid1 == <<"S","1">>
Sid2 == <<"S","2">>
Sid9 == <<"S","9">>

NoId   == <<>>
NoUrl  == <<>>
NoFile == [present |-> FALSE, content |-> <<>>]

File(c) == [present |-> TRUE, content |-> c]

\* new Student({...studentData, photo_url, has_photo}) with the schema's defaults
NewStudent(data, url) ==
    [ data                  |-> data,
      photo_url             |-> url,
      has_photo             |-> (url # NoUrl),
      card_generated        |-> FALSE,
      card_generation_count |-> 0,
      last_card_generated   |-> 0,
      first_card_generated  |-> 0 ]

Has(f, k) == k \in DOMAIN f

\* f with key k bound to v (k is added when f has no such key)
Put(f, k, v) == [x \in (DOMAIN f) \cup {k} |-> IF x = k THEN v ELSE f[x]]

----------------------------------------------------------------------------
(* Photo archive entries: file names, and what the extractor derives.       *)

S1jpg  == <<"S","1",".","j","p","g">>
S2PNG  == <<"S","2",".","P","N","G">>
Notes  == <<"n","o","t","e","s",".","t","x","t">>
Ajpg   == <<"a",".","j","p","g">>
PicDir == <<"p","i","c","s","/">>

ImageExts == { <<".","j","p","g">>, <<".","j","p","e","g">>, <<".","p","n","g">>,
               <<".","g","i","f">>, <<".","b","m","p">> }

endsWith(s, suf) ==
    Len(s) >= Len(suf) /\ SubSeq(s, Len(s) - Len(suf) + 1, Len(s)) = suf

\* fileName.match(/\.(jpg|jpeg|png|gif|bmp)$/i)
HasImageExt(fileName) == \E e \in ImageExts : endsWith(toLowerCase(fileName), e)

\* file.dir
IsDir(fileName) == endsWith(fileName, <<"/">>)

LastIndexOf(s, c) ==
    LET at == {i \in 1..Len(s) : s[i] = c}
    IN  IF at = {} THEN 0 ELSE CHOOSE i \in at : \A j \in at : j <= i

\* path.parse(fileName).name
PathName(fileName) ==
    LET slash == LastIndexOf(fileName, "/")
        base  == SubSeq(fileName, slash + 1, Len(fileName))
        dot   == LastIndexOf(base, ".")
    IN  IF dot <= 1 THEN base ELSE SubSeq(base, 1, dot - 1)

\* the reference under which an uploaded photo of student `stem` is fetched
UrlOf(stem) == <<"u",":">> \o stem

----------------------------------------------------------------------------
(* Inputs of a generation request.                                          *)

Variants    == {"cloudinary", "disk"}
TemplateT1  == <<"T","1">>
TemplateT9  == <<"T","9">>
\* the Template collection holds T1 only
Templates   == {TemplateT1}
TemplateIds == {NoId, TemplateT1, TemplateT9}

\* coordinates: field of the form; "absent", a document that is not JSON, or a
\* document with or without a photo rectangle
CoordDocs == {"absent", "malformed", "photo", "nophoto"}

PipelineLines   == {S1Line, S2Line}
PipelineRosters ==
    {JoinLines(<<HeaderLine>> \o ls) : ls \in SeqsUpTo(PipelineLines, MaxRoster)}

PhotoZips == { <<S1jpg, Notes>> }

BatchForms ==
    [ kind : {"batch"}, variant : Variants,
      csv : {NoFile} \cup {File(b) : b \in PipelineRosters},
      photoZip : {NoFile} \cup {File(z) : z \in PhotoZips},
      templateId : TemplateIds, coordinates : CoordDocs, studentId : {NoId} ]

SingleForms ==
    [ kind : {"single"}, variant : Variants, csv : {NoFile}, photoZip : {NoFile},
      templateId : TemplateIds, coordinates : CoordDocs,
      studentId : {NoId, Sid1, Sid9} ]

S1Data == StudentOfLine(S1Line, 1)

\* the collection before the requests: empty, S1 never generated, or S1 with a
\* photo and one earlier generation at time 1
InitialDbs ==
    { <<>>,
      Put(<<>>, Sid1, NewStudent(S1Data, NoUrl)),
      Put(<<>>, Sid1, [NewStudent(S1Data, UrlOf(Sid1)) EXCEPT
                          !.card_generated = TRUE, !.card_generation_count = 1,
                          !.last_card_generated = 1, !.first_card_generated = 1]) }

\* res: nothing has been done to the response
FreshRes == [status |-> 0, json |-> FALSE, zipHeaders |-> FALSE, piped |-> FALSE,
             sentZip |-> FALSE, finalized |-> FALSE]

\* hist: nothing has been done yet; rows is filled in when the roster is parsed
FreshHist == [ops |-> {}, rows |-> <<>>, streamError |-> FALSE, templateLoads |-> 0]

FreshRow == [rosterSave |-> "none", attempts |-> 0, outcome |-> "Pending",
             ledgerSave |-> "none"]

----------------------------------------------------------------------------
(* The states in which the helper functions are not being exercised. *)

TextIdle == addTextIn = <<>> /\ displayText = <<>> /\ textPc = "idle"

ComposeIdle == job = <<>> /\ canvas = <<>> /\ composePc = "idle"

PhotoIdle ==
    /\ zipIn = <<>> /\ tasks = <<>> /\ photoCloudinaryMap = <<>>
    /\ extractPc = "idle"

FetchIdle == fetchIn = <<>> /\ fetchRun = <<>> /\ fetchPc = "idle"

LineIdle == lineIn = <<>> /\ lineOut = <<>> /\ linePc = "idle"

TemplateIdle == templateDb = <<>> /\ tReq = <<>> /\ tRes = <<>> /\ tPc = "idle"

UnitsIdle == TextIdle /\ ComposeIdle /\ PhotoIdle /\ FetchIdle /\ LineIdle /\ TemplateIdle

----------------------------------------------------------------------------
(* The state in which no generation request exists. *)

NoRequests ==
    /\ db = <<>> /\ db0 = <<>> /\ assets = 0 /\ clock = 1
    /\ req = <<>> /\ pc = <<>> /\ students = <<>> /\ photoMap = <<>>
    /\ savedStudents = <<>> /\ idx = <<>> /\ found = <<>> /\ cards = <<>>
    /\ archive = <<>>
    /\ res = <<>> /\ generatedCount = <<>> /\ hist = <<>>

----------------------------------------------------------------------------
(* The parser on its own: one call of parseCSVFromBuffer on a roster buffer. *)

InitParse ==
    /\ csvBuffer \in RosterBuffers
    /\ parsed = <<>>
    /\ parsePc = "ready"
    /\ NoRequests
    /\ UnitsIdle

ParseCSV ==
    /\ parsePc = "ready"
    /\ parsed' = parseCSVFromBuffer(csvBuffer)
    /\ parsePc' = "parsed"
    /\ UNCHANGED <<csvBuffer, db, db0, assets, clock, req, pc, students, photoMap,
                   savedStudents, idx, found, cards, archive, res, generatedCount,
                   hist, unitVars>>

NextParse == ParseCSV

SpecParse == InitParse /\ [][NextParse]_vars

----------------------------------------------------------------------------
(* The generation handlers.  Each action is the code a handler runs between *)
(* two of its awaits; r is the request.                                     *)

Undefined == <<NoChar>>

\* res.status(code).json({ success: false, error })
JsonError(r, code) == [res EXCEPT ![r].status = code, ![r].json = TRUE]

Did(r, o) == [hist EXCEPT ![r].ops = @ \cup o]

SetRow(h, r, k, field, v) == [h EXCEPT ![r].rows[k][field] = v]

\* the cell of a csv-parser row under the column named tok
Cell(header, values, tok) ==
    IF \E k \in 1..Len(header) : header[k] = tok /\ k <= Len(values)
    THEN values[CHOOSE k \in 1..Len(header) : header[k] = tok /\ k <= Len(values)]
    ELSE Undefined

OrDefault(v, dflt) == IF v = Undefined \/ v = <<>> THEN dflt ELSE v

\* parseCSV of the disk variant: csv-parser takes the first line as the header
parseCSV(buf) ==
    LET lines  == SelectSeq(split(buf), LAMBDA l : l # <<>>)
        header == IF Len(lines) = 0 THEN <<>> ELSE parseCSVLine(lines[1])
        row(k) == parseCSVLine(lines[k + 1])
    IN  [ k \in 1..(Len(lines) - 1) |->
            [ student_id    |-> Cell(header, row(k), TokStudentId),
              name          |-> Cell(header, row(k), TokName),
              class         |-> OrDefault(Cell(header, row(k), <<"c","l","a","s","s">>), DefNA),
              level         |-> OrDefault(Cell(header, row(k), <<"l","e","v","e","l">>), DefNA),
              residence     |-> OrDefault(Cell(header, row(k), <<"r","e","s","i","d","e","n","c","e">>), DefNA),
              gender        |-> OrDefault(Cell(header, row(k), <<"g","e","n","d","e","r">>), DefNA),
              academic_year |-> OrDefault(Cell(header, row(k), <<"a","c","a","d","e","m","i","c","_","y","e","a","r">>), DefNA),
              parent_phone  |-> OrDefault(Cell(header, row(k), <<"p","a","r","e","n","t","_","p","h","o","n","e">>), DefPhone) ] ]

\* a slip: the template id is not checked
BatchInputMissing_CsvOnly(f) == ~f.csv.present

\* !req.files.csv || !req.body.templateId
BatchInputMissing(f) == ~f.csv.present \/ f.templateId = NoId

\* validation of a batch request
BatchValidate(r) ==
    /\ pc[r] = "validate" /\ req[r].kind = "batch"
    /\ IF BatchInputMissing(req[r])
       THEN /\ res' = JsonError(r, 400)
            /\ pc' = [pc EXCEPT ![r] = "done"]
       ELSE /\ res' = res
            /\ pc' = [pc EXCEPT ![r] = IF req[r].variant = "cloudinary"
                                       THEN "parse" ELSE "template"]
    /\ UNCHANGED <<db, db0, assets, clock, req, students, photoMap, savedStudents,
                   idx, found, cards, archive, generatedCount, hist, parseVars, unitVars>>

\* const students = await parseCSVFromBuffer(...) / parseCSV(...)
ParseRoster(r) ==
    /\ pc[r] = "parse"
    /\ LET rows == IF req[r].variant = "cloudinary"
                   THEN parseCSVFromBuffer(req[r].csv.content)
                   ELSE parseCSV(req[r].csv.content)
       IN  /\ students' = [students EXCEPT ![r] = rows]
           /\ hist' = [hist EXCEPT ![r].ops = @ \cup {"parse"},
                                   ![r].rows = [k \in 1..Len(rows) |-> FreshRow]]
    /\ idx' = [idx EXCEPT ![r] = 1]
    /\ pc' = [pc EXCEPT ![r] = IF req[r].photoZip.present THEN "photos" ELSE "persist"]
    /\ UNCHANGED <<db, db0, assets, clock, req, photoMap, savedStudents, found,
                   cards, archive, res, generatedCount, parseVars, unitVars>>

MinIdLength == 2

\* the entries extractAndUploadPhotosToCloudinary hands on, and their keys
Qualifying(zip) ==
    {i \in 1..Len(zip) : ~IsDir(zip[i]) /\ HasImageExt(zip[i])
                          /\ Len(PathName(zip[i])) >= MinIdLength}

RECURSIVE MapOf(_, _, _)
\* the map after storing key(zip[i]) -> ref for the entries i of `order`, in turn
MapOf(zip, order, m) ==
    IF order = <<>> THEN m
    ELSE MapOf(zip, Tail(order),
               Put(m, PathName(zip[order[1]]), UrlOf(PathName(zip[order[1]]))))

RECURSIVE SeqOfSet(_)
SeqOfSet(S) ==
    IF S = {} THEN <<>>
    ELSE LET x == CHOOSE y \in S : \A z \in S : y <= z
         IN  <<x>> \o SeqOfSet(S \ {x})

\* photoCloudinaryMap = await extractAndUploadPhotosToCloudinary(...): every
\* qualifying entry is uploaded; `ok` are the entries whose upload succeeded.
\* The disk variant (extractPhotos) keeps every extracted file.
ExtractPhotos(r) ==
    /\ pc[r] = "photos"
    /\ LET zip == req[r].photoZip.content
       IN  IF req[r].variant = "cloudinary"
           THEN \E ok \in SUBSET Qualifying(zip) :
                   /\ photoMap' = [photoMap EXCEPT ![r] = MapOf(zip, SeqOfSet(ok), <<>>)]
                   /\ assets' = assets + Cardinality(ok)
           ELSE /\ photoMap' = [photoMap EXCEPT
                                   ![r] = MapOf(zip, SeqOfSet(1..Len(zip)), <<>>)]
                /\ assets' = assets + Len(zip)
    /\ hist' = Did(r, {"upload"})
    /\ pc' = [pc EXCEPT ![r] = "persist"]
    /\ UNCHANGED <<db, db0, clock, req, students, savedStudents, idx, found, cards,
                   archive, res, generatedCount, parseVars, unitVars>>

\* const existingStudent = await Student.findOne({ student_id })
PersistFind(r) ==
    /\ pc[r] = "persist" /\ req[r].variant = "cloudinary"
    /\ idx[r] <= Len(students[r])
    /\ LET sid == students[r][idx[r]].student_id
       IN  found' = [found EXCEPT ![r] = IF Has(db, sid) THEN <<db[sid]>> ELSE <<>>]
    /\ hist' = Did(r, {"dbread"})
    /\ pc' = [pc EXCEPT ![r] = "persist_save"]
    /\ UNCHANGED <<db, db0, assets, clock, req, students, photoMap, savedStudents,
                   idx, cards, archive, res, generatedCount, parseVars, unitVars>>

\* the document the roster loop saves for row k: the existing one with the roster
\* fields (and the photo, when the batch has one) assigned, or a new one
RosterDoc(r, k) ==
    LET studentData == students[r][k]
        sid         == studentData.student_id
        hasPhoto    == Has(photoMap[r], sid)
    IN  IF found[r] # <<>>
        THEN IF hasPhoto
             THEN [found[r][1] EXCEPT !.data = studentData,
                                      !.photo_url = photoMap[r][sid],
                                      !.has_photo = TRUE]
             ELSE [found[r][1] EXCEPT !.data = studentData]
        ELSE NewStudent(studentData, IF hasPhoto THEN photoMap[r][sid] ELSE NoUrl)

\* a slip: the stored document is replaced by a new one built from the row
RosterWrite_AsNew(r, k, doc) ==
    Put(db, doc.data.student_id, NewStudent(doc.data, doc.photo_url))

\* what save() of the roster loop stores: an insert, or the assigned paths only
RosterWrite(r, k, doc) ==
    LET sid == doc.data.student_id
    IN  IF found[r] = <<>> THEN Put(db, sid, doc)
        ELSE [db EXCEPT ![sid].data = doc.data,
                        ![sid].photo_url = doc.photo_url,
                        ![sid].has_photo = doc.has_photo]

\* whether the database accepts the save: an insert needs a free student_id
\* (unique index), an update needs the document to exist
RosterSaveAccepted(r, sid) == IF found[r] = <<>> THEN ~Has(db, sid) ELSE Has(db, sid)

\* a slip: the push precedes the save
SavedAfter_Always(list, entry, saved) == Append(list, entry)

\* savedStudents after the try block of one row: the push follows the save, so
\* a row whose save threw is not in the list
SavedAfter(list, entry, saved) == IF saved THEN Append(list, entry) ELSE list

\* await existingStudent.save() / await student.save(), then savedStudents.push;
\* a save that throws is logged by the loop's catch
PersistSave(r) ==
    /\ pc[r] = "persist_save"
    /\ LET k   == idx[r]
           doc == RosterDoc(r, k)
           sid == doc.data.student_id
       IN  \/ /\ RosterSaveAccepted(r, sid)
              /\ db' = RosterWrite(r, k, doc)
              /\ savedStudents' = [savedStudents EXCEPT ![r] =
                    SavedAfter(@, [doc |-> doc, row |-> k, firstDirty |-> FALSE], TRUE)]
              /\ hist' = SetRow(Did(r, {"dbwrite"}), r, k, "rosterSave", "ok")
           \/ /\ db' = db
              /\ savedStudents' = [savedStudents EXCEPT ![r] =
                    SavedAfter(@, [doc |-> doc, row |-> k, firstDirty |-> FALSE], FALSE)]
              /\ hist' = SetRow(hist, r, k, "rosterSave", "failed")
    /\ idx' = [idx EXCEPT ![r] = @ + 1]
    /\ found' = [found EXCEPT ![r] = <<>>]
    /\ pc' = [pc EXCEPT ![r] = "persist"]
    /\ UNCHANGED <<db0, assets, clock, req, students, photoMap, cards, archive, res,
                   generatedCount, parseVars, unitVars>>

\* Student.findOneAndUpdate(..., { upsert: true, new: true }) of the disk variant
PersistUpsert(r) ==
    /\ pc[r] = "persist" /\ req[r].variant = "disk"
    /\ idx[r] <= Len(students[r])
    /\ LET k    == idx[r]
           data == students[r][k]
           sid  == data.student_id
           base == IF Has(db, sid) THEN db[sid] ELSE NewStudent(data, NoUrl)
           doc  == [base EXCEPT !.data = data,
                                !.has_photo = Has(photoMap[r], sid),
                                !.photo_url = IF Has(photoMap[r], sid)
                                              THEN photoMap[r][sid] ELSE NoUrl]
       IN  \/ /\ db' = Put(db, sid, doc)
              /\ savedStudents' = [savedStudents EXCEPT ![r] =
                    SavedAfter(@, [doc |-> doc, row |-> k, firstDirty |-> FALSE], TRUE)]
              /\ hist' = SetRow(Did(r, {"dbread", "dbwrite"}), r, k, "rosterSave", "ok")
           \/ /\ db' = db
              /\ savedStudents' = [savedStudents EXCEPT ![r] =
                    SavedAfter(@, [doc |-> doc, row |-> k, firstDirty |-> FALSE], FALSE)]
              /\ hist' = SetRow(hist, r, k, "rosterSave", "failed")
    /\ idx' = [idx EXCEPT ![r] = @ + 1]
    /\ UNCHANGED <<db0, assets, clock, req, pc, students, photoMap, found, cards,
                   archive, res, generatedCount, parseVars, unitVars>>

\* the roster loop has run out of rows
PersistDone(r) ==
    /\ pc[r] = "persist"
    /\ idx[r] > Len(students[r])
    /\ pc' = [pc EXCEPT ![r] = IF req[r].variant = "cloudinary"
                               THEN "template" ELSE "stream"]
    /\ UNCHANGED <<db, db0, assets, clock, req, students, photoMap, savedStudents,
                   idx, found, cards, archive, res, generatedCount, hist, parseVars, unitVars>>

\* a slip: the result of findById is not checked
TemplateMissing_Never(templateId) == FALSE

\* !template, for template = await Template.findById(templateId)
TemplateMissing(templateId) == templateId \notin Templates

\* const template = await Template.findById(req.body.templateId)
LookupTemplate(r) ==
    /\ pc[r] = "template"
    /\ hist' = Did(r, {"dbread"})
    /\ IF TemplateMissing(req[r].templateId)
       THEN /\ res' = JsonError(r, 404)
            /\ pc' = [pc EXCEPT ![r] = "done"]
       ELSE /\ res' = res
            /\ pc' = [pc EXCEPT ![r] = IF req[r].variant = "cloudinary"
                                       THEN "stream" ELSE "parse"]
    /\ UNCHANGED <<db, db0, assets, clock, req, students, photoMap, savedStudents,
                   idx, found, cards, archive, generatedCount, parseVars, unitVars>>

FrontSuffix == <<"/","f","r","o","n","t","-","s","i","d","e",".","p","n","g">>
BackSuffix  == <<"/","b","a","c","k","-","s","i","d","e",".","p","n","g">>

NoCards == <<>>

\* the archive entries of one student: `${student_id}/front-side.png`, then back
FrontEntry(sid, k) == [name |-> sid \o FrontSuffix, row |-> k]
BackEntry(sid, k)  == [name |-> sid \o BackSuffix, row |-> k]

\* a slip: the back image is never appended
AppendPair_FrontOnly(a, sid, k) == a \o <<FrontEntry(sid, k)>>

\* a slip: the two appends swapped
AppendPair_BackFirst(a, sid, k) == a \o <<BackEntry(sid, k), FrontEntry(sid, k)>>

\* archive.append(frontBuffer, ...); archive.append(backBuffer, ...)
AppendPair(a, sid, k) == a \o <<FrontEntry(sid, k), BackEntry(sid, k)>>

\* coordinates parsed, zip headers set, archive piped to the response
\* (cloudinary variant: JSON.parse comes first and its throw reaches the catch)
StartStream(r) ==
    /\ pc[r] = "stream" /\ req[r].variant = "cloudinary"
    /\ IF req[r].coordinates = "malformed"
       THEN /\ res' = JsonError(r, 500)
            /\ pc' = [pc EXCEPT ![r] = "done"]
       ELSE /\ res' = [res EXCEPT ![r].zipHeaders = TRUE, ![r].piped = TRUE]
            /\ pc' = [pc EXCEPT ![r] = "render"]
    /\ idx' = [idx EXCEPT ![r] = 1]
    /\ UNCHANGED <<db, db0, assets, clock, req, students, photoMap, savedStudents,
                   found, cards, archive, generatedCount, hist, parseVars, unitVars>>

\* disk variant: zip headers set and archive piped, then JSON.parse; its throw
\* reaches the catch, which answers res.status(500).json
StartStreamDisk(r) ==
    /\ pc[r] = "stream" /\ req[r].variant = "disk"
    /\ IF req[r].coordinates = "malformed"
       THEN /\ res' = [res EXCEPT ![r].zipHeaders = TRUE, ![r].piped = TRUE,
                                  ![r].status = 500, ![r].json = TRUE]
            /\ pc' = [pc EXCEPT ![r] = "done"]
       ELSE /\ res' = [res EXCEPT ![r].zipHeaders = TRUE, ![r].piped = TRUE]
            /\ pc' = [pc EXCEPT ![r] = "render"]
    /\ idx' = [idx EXCEPT ![r] = 1]
    /\ UNCHANGED <<db, db0, assets, clock, req, students, photoMap, savedStudents,
                   found, cards, archive, generatedCount, hist, parseVars, unitVars>>

\* generateCards... begins with await loadImage(template.frontSide...): every
\* call loads the template image
LoadsTemplate(h, r) == [h EXCEPT ![r].templateLoads = @ + 1]

\* the pair generateCardsWithCloudinary / generateCardsInMemory returns
CardPair(sid) == <<[side |-> "front", sid |-> sid], [side |-> "back", sid |-> sid]>>

\* the loop's next position after the student at idx[r] was dealt with
NextStudent(r) == [idx EXCEPT ![r] = @ + 1]

\* a slip: the catch block leaves the loop
AfterFailure_Abort(r) == [idx EXCEPT ![r] = Len(savedStudents[r]) + 1]

\* the loop's next position after its catch block logged the student at idx[r]
AfterFailure(r) == NextStudent(r)

\* await generateCards...(student, template, coordinates, photo): the template
\* image loads and a pair is returned, or loading it throws and the loop's catch
\* logs the student
GenerateCards(r) ==
    /\ pc[r] = "render" /\ req[r].kind = "batch"
    /\ idx[r] <= Len(savedStudents[r])
    /\ LET k   == savedStudents[r][idx[r]].row
           sid == savedStudents[r][idx[r]].doc.data.student_id
           h   == [LoadsTemplate(Did(r, {"render"}), r) EXCEPT ![r].rows[k].attempts = @ + 1]
       IN  \/ /\ cards' = [cards EXCEPT ![r] = CardPair(sid)]
              /\ hist' = SetRow(h, r, k, "outcome", "Rendered")
              /\ pc' = [pc EXCEPT ![r] = "ledger"]
              /\ idx' = idx
           \/ /\ cards' = cards
              /\ hist' = SetRow(h, r, k, "outcome", "Failed")
              /\ pc' = pc
              /\ idx' = AfterFailure(r)
    /\ UNCHANGED <<db, db0, assets, clock, req, students, photoMap, savedStudents,
                   found, archive, res, generatedCount, parseVars, unitVars>>

\* the values new Date() can return on a second call right after the first
Later(t) == IF t < MaxClock THEN {t, t + 1} ELSE {t}

\* a slip: the count is not incremented
LedgerUpdate_NoCount(doc, now, now2) ==
    [doc EXCEPT !.card_generated = TRUE,
                !.last_card_generated = now,
                !.first_card_generated = IF @ = 0 THEN now2 ELSE @]

\* the ledger update of the cloudinary batch and of both single-card handlers
LedgerUpdate(doc, now, now2) ==
    [doc EXCEPT !.card_generated = TRUE,
                !.card_generation_count = @ + 1,
                !.last_card_generated = now,
                !.first_card_generated = IF @ = 0 THEN now2 ELSE @]

\* the ledger update of the disk batch
LedgerUpdateDisk(doc, now, now2) ==
    [doc EXCEPT !.card_generated = TRUE,
                !.card_generation_count = @ + 1,
                !.last_card_generated = now]

\* whether the update assigned first_card_generated
AssignsFirst(variant, kind, doc) ==
    doc.first_card_generated = 0 /\ ~(variant = "disk" /\ kind = "batch")

\* after the pair is returned: both entries appended, the ledger fields of the
\* document set, save() called
AppendAndUpdate(r) ==
    /\ pc[r] = "ledger" /\ req[r].kind = "batch"
    /\ LET e   == savedStudents[r][idx[r]]
           sid == e.doc.data.student_id
       IN  \E now2 \in Later(clock) :
              /\ archive' = [archive EXCEPT ![r] = AppendPair(@, sid, e.row)]
              /\ savedStudents' = [savedStudents EXCEPT ![r][idx[r]] =
                    [ doc |-> IF req[r].variant = "cloudinary"
                              THEN LedgerUpdate(e.doc, clock, now2)
                              ELSE LedgerUpdateDisk(e.doc, clock, now2),
                      row |-> e.row,
                      firstDirty |-> AssignsFirst(req[r].variant, "batch", e.doc) ]]
              /\ clock' = now2
              /\ hist' = Did(r, {"append", "ledger"})
    /\ cards' = [cards EXCEPT ![r] = NoCards]
    /\ pc' = [pc EXCEPT ![r] = "save"]
    /\ UNCHANGED <<db, db0, assets, req, students, photoMap, idx, found, res,
                   generatedCount, parseVars, unitVars>>

\* a slip: save() stores nothing
LedgerWrite_Nothing(d, e) == d

\* what save() stores after a ledger update: the paths the update assigned
LedgerWrite(d, e) ==
    LET sid == e.doc.data.student_id
        d1  == [d EXCEPT ![sid].card_generated = e.doc.card_generated,
                         ![sid].card_generation_count = e.doc.card_generation_count,
                         ![sid].last_card_generated = e.doc.last_card_generated]
    IN  IF e.firstDirty
        THEN [d1 EXCEPT ![sid].first_card_generated = e.doc.first_card_generated]
        ELSE d1

\* await student.save() resolves and generatedCount++, or it throws and the
\* loop's catch logs the student
SaveLedger(r) ==
    /\ pc[r] = "save" /\ req[r].kind = "batch"
    /\ LET e == savedStudents[r][idx[r]]
       IN  \/ /\ Has(db, e.doc.data.student_id)
              /\ db' = LedgerWrite(db, e)
              /\ generatedCount' = [generatedCount EXCEPT ![r] = @ + 1]
              /\ hist' = SetRow(Did(r, {"dbwrite"}), r, e.row, "ledgerSave", "ok")
              /\ idx' = NextStudent(r)
           \/ /\ db' = db
              /\ generatedCount' = generatedCount
              /\ hist' = SetRow(hist, r, e.row, "ledgerSave", "failed")
              /\ idx' = AfterFailure(r)
    /\ pc' = [pc EXCEPT ![r] = "render"]
    /\ UNCHANGED <<db0, assets, clock, req, students, photoMap, savedStudents, found,
                   cards, archive, res, parseVars, unitVars>>

\* a slip: the archive is finalized inside the loop
LoopDone_Early(r) == TRUE

\* the for...of loop over savedStudents has run out of students
LoopDone(r) == idx[r] > Len(savedStudents[r])

\* archive.finalize() after the loop
Finalize(r) ==
    /\ pc[r] = "render" /\ req[r].kind = "batch"
    /\ LoopDone(r)
    /\ res' = [res EXCEPT ![r].finalized = TRUE]
    /\ pc' = [pc EXCEPT ![r] = "done"]
    /\ UNCHANGED <<db, db0, assets, clock, req, students, photoMap, savedStudents,
                   idx, found, cards, archive, generatedCount, hist, parseVars, unitVars>>

\* the response stream the archive is piped to errors (the caller went away);
\* the handler has registered no listener on the archive or the response
StreamError(r) ==
    /\ req[r].kind = "batch"
    /\ pc[r] \in {"render", "ledger", "save"}
    /\ res[r].piped /\ ~res[r].finalized
    /\ ~hist[r].streamError
    /\ hist' = [hist EXCEPT ![r].streamError = TRUE]
    /\ UNCHANGED <<db, db0, assets, clock, req, pc, students, photoMap, savedStudents,
                   idx, found, cards, archive, res, generatedCount, parseVars, unitVars>>

----------------------------------------------------------------------------
(* The single-card handler.                                                 *)

\* !studentId || !templateId
SingleInputMissing(f) == f.studentId = NoId \/ f.templateId = NoId

\* input validation; a coordinates document that does not parse is replaced by {}
SingleValidate(r) ==
    /\ pc[r] = "validate" /\ req[r].kind = "single"
    /\ IF SingleInputMissing(req[r])
       THEN /\ res' = JsonError(r, 400)
            /\ pc' = [pc EXCEPT ![r] = "done"]
       ELSE /\ res' = res
            /\ pc' = [pc EXCEPT ![r] = "lookup"]
    /\ UNCHANGED <<db, db0, assets, clock, req, students, photoMap, savedStudents,
                   idx, found, cards, archive, generatedCount, hist, parseVars, unitVars>>

\* Template.findById, Student.findById; a missing one is thrown to the catch
SingleLookup(r) ==
    /\ pc[r] = "lookup"
    /\ IF TemplateMissing(req[r].templateId) \/ ~Has(db, req[r].studentId)
       THEN /\ res' = JsonError(r, 500)
            /\ pc' = [pc EXCEPT ![r] = "done"]
            /\ savedStudents' = savedStudents
            /\ hist' = Did(r, {"dbread"})
       ELSE /\ res' = res
            /\ pc' = [pc EXCEPT ![r] = "render"]
            /\ savedStudents' = [savedStudents EXCEPT ![r] =
                  <<[doc |-> db[req[r].studentId], row |-> 1, firstDirty |-> FALSE]>>]
            /\ hist' = [Did(r, {"dbread"}) EXCEPT ![r].rows = <<FreshRow>>]
    /\ idx' = [idx EXCEPT ![r] = 1]
    /\ UNCHANGED <<db, db0, assets, clock, req, students, photoMap, found, cards,
                   archive, generatedCount, parseVars, unitVars>>

\* await generateCards...: a pair, or the throw reaches the handler's catch
SingleGenerate(r) ==
    /\ pc[r] = "render" /\ req[r].kind = "single"
    /\ LET sid == savedStudents[r][1].doc.data.student_id
           h   == [LoadsTemplate(Did(r, {"render"}), r) EXCEPT ![r].rows[1].attempts = @ + 1]
       IN  \/ /\ cards' = [cards EXCEPT ![r] = CardPair(sid)]
              /\ hist' = SetRow(h, r, 1, "outcome", "Rendered")
              /\ res' = res
              /\ pc' = [pc EXCEPT ![r] = "zip"]
           \/ /\ cards' = cards
              /\ hist' = SetRow(h, r, 1, "outcome", "Failed")
              /\ res' = JsonError(r, 500)
              /\ pc' = [pc EXCEPT ![r] = "done"]
    /\ UNCHANGED <<db, db0, assets, clock, req, students, photoMap, savedStudents,
                   idx, found, archive, generatedCount, parseVars, unitVars>>

\* createZipInMemory resolves with the two entries, then the ledger fields of
\* the document are set and save() is called; or the archiver reports an error,
\* createZipInMemory rejects and the throw reaches the handler's catch
SingleZipAndUpdate(r) ==
    /\ pc[r] = "zip"
    /\ LET e   == savedStudents[r][1]
           sid == e.doc.data.student_id
       IN  \/ \E now2 \in Later(clock) :
                /\ archive' = [archive EXCEPT ![r] = AppendPair(@, sid, 1)]
                /\ savedStudents' = [savedStudents EXCEPT ![r][1] =
                      [ doc |-> LedgerUpdate(e.doc, clock, now2), row |-> 1,
                        firstDirty |-> AssignsFirst(req[r].variant, "single", e.doc) ]]
                /\ clock' = now2
                /\ hist' = Did(r, {"append", "ledger"})
                /\ res' = res
                /\ pc' = [pc EXCEPT ![r] = "save"]
           \/ /\ archive' = archive /\ savedStudents' = savedStudents
              /\ clock' = clock /\ hist' = hist
              /\ res' = JsonError(r, 500)
              /\ pc' = [pc EXCEPT ![r] = "done"]
    /\ cards' = [cards EXCEPT ![r] = NoCards]
    /\ UNCHANGED <<db, db0, assets, req, students, photoMap, idx, found,
                   generatedCount, parseVars, unitVars>>

\* await student.save(): then the zip is sent, or the throw reaches the catch
SingleSave(r) ==
    /\ pc[r] = "save" /\ req[r].kind = "single"
    /\ LET e == savedStudents[r][1]
       IN  \/ /\ Has(db, e.doc.data.student_id)
              /\ db' = LedgerWrite(db, e)
              /\ hist' = SetRow(Did(r, {"dbwrite"}), r, 1, "ledgerSave", "ok")
              /\ res' = [res EXCEPT ![r].zipHeaders = TRUE, ![r].sentZip = TRUE,
                                    ![r].finalized = TRUE, ![r].status = 200]
           \/ /\ db' = db
              /\ hist' = SetRow(hist, r, 1, "ledgerSave", "failed")
              /\ res' = JsonError(r, 500)
    /\ pc' = [pc EXCEPT ![r] = "done"]
    /\ UNCHANGED <<db0, assets, clock, req, students, photoMap, savedStudents, idx,
                   found, cards, archive, generatedCount, parseVars, unitVars>>

----------------------------------------------------------------------------
(* One generation request, batch or single-card, of either variant.         *)

InitRequests(R) ==
    /\ csvBuffer = <<>> /\ parsed = <<>> /\ parsePc = "idle"
    /\ UnitsIdle
    /\ db \in InitialDbs
    /\ db0 = db
    /\ assets = 0
    /\ clock = 2
    /\ req \in [R -> BatchForms \cup SingleForms]
    /\ pc = [r \in R |-> "validate"]
    /\ students = [r \in R |-> <<>>]
    /\ photoMap = [r \in R |-> <<>>]
    /\ savedStudents = [r \in R |-> <<>>]
    /\ idx = [r \in R |-> 0]
    /\ found = [r \in R |-> <<>>]
    /\ cards = [r \in R |-> NoCards]
    /\ archive = [r \in R |-> <<>>]
    /\ res = [r \in R |-> FreshRes]
    /\ generatedCount = [r \in R |-> 0]
    /\ hist = [r \in R |-> FreshHist]

Init == InitRequests({1})

Next ==
    \/ \E r \in DOMAIN req : BatchValidate(r)
    \/ \E r \in DOMAIN req : ParseRoster(r)
    \/ \E r \in DOMAIN req : ExtractPhotos(r)
    \/ \E r \in DOMAIN req : PersistFind(r)
    \/ \E r \in DOMAIN req : PersistSave(r)
    \/ \E r \in DOMAIN req : PersistUpsert(r)
    \/ \E r \in DOMAIN req : PersistDone(r)
    \/ \E r \in DOMAIN req : LookupTemplate(r)
    \/ \E r \in DOMAIN req : StartStream(r)
    \/ \E r \in DOMAIN req : StartStreamDisk(r)
    \/ \E r \in DOMAIN req : GenerateCards(r)
    \/ \E r \in DOMAIN req : AppendAndUpdate(r)
    \/ \E r \in DOMAIN req : SaveLedger(r)
    \/ \E r \in DOMAIN req : Finalize(r)
    \/ \E r \in DOMAIN req : StreamError(r)
    \/ \E r \in DOMAIN req : SingleValidate(r)
    \/ \E r \in DOMAIN req : SingleLookup(r)
    \/ \E r \in DOMAIN req : SingleGenerate(r)
    \/ \E r \in DOMAIN req : SingleZipAndUpdate(r)
    \/ \E r \in DOMAIN req : SingleSave(r)

Spec == Init /\ [][Next]_vars

----------------------------------------------------------------------------
(* Two generation requests served at once by one deployment: both name the  *)
(* student S1 and an existing template.                                     *)

RaceRoster == JoinLines(<<HeaderLine, S1Line>>)

RaceForms ==
    [ kind : {"batch"}, variant : Variants, csv : {File(RaceRoster)},
      photoZip : {NoFile} \cup {File(z) : z \in PhotoZips},
      templateId : {TemplateT1}, coordinates : {"absent"}, studentId : {NoId} ]
    \cup
    [ kind : {"single"}, variant : Variants, csv : {NoFile}, photoZip : {NoFile},
      templateId : {TemplateT1}, coordinates : {"absent"}, studentId : {Sid1} ]

InitRace ==
    /\ InitRequests({1, 2})
    /\ \A r \in DOMAIN req : req[r] \in RaceForms
    /\ req[1].variant = req[2].variant

SpecRace == InitRace /\ [][Next]_vars

----------------------------------------------------------------------------
(* addText: the text helper of the two compositors.  ctx.measureText is the *)
(* canvas library's; a string's width is the sum of its characters' widths  *)
(* in a proportional font (a wide letter, a narrow letter and the dot).     *)

\* Longest text handed to addText.
MaxText == 5
\* Largest maxWidth of a coordinate entry.
MaxWidth == 5

TextChars == {"W", "i", "."}

CharWidth(c) == IF c = "W" THEN 2 ELSE 1

RECURSIVE measureText(_)
measureText(s) ==
    IF Len(s) = 0 THEN 0 ELSE CharWidth(s[1]) + measureText(Tail(s))

Ellipsis == <<".", ".", ".">>

\* s.slice(0, -1)
slice(s) == SubSeq(s, 1, Len(s) - 1)

\* the value that stands for "ctx.fillText was not called"
NothingDrawn == <<NoChar>>

\* the coordinate entries: none, or one with a maxWidth (0: no maxWidth field)
Coords == [present : BOOLEAN, maxWidth : 0..MaxWidth]

\* cloudinary compositor:
\* while (measureText(displayText).width > maxWidth && displayText.length > 3)
RECURSIVE ShrinkCloud(_, _)
ShrinkCloud(d, maxWidth) ==
    IF measureText(d) > maxWidth /\ Len(d) > 3
    THEN ShrinkCloud(slice(d), maxWidth)
    ELSE d

addTextCloud(text, coord) ==
    IF text = <<>> \/ ~coord.present THEN NothingDrawn
    ELSE IF coord.maxWidth # 0
         THEN LET d == ShrinkCloud(text, coord.maxWidth)
              IN  IF d # text THEN d \o Ellipsis ELSE d
         ELSE text

\* disk compositor:
\* while (measureText(truncated + '...').width > maxWidth && truncated.length > 1)
RECURSIVE ShrinkDisk(_, _)
ShrinkDisk(d, maxWidth) ==
    IF measureText(d \o Ellipsis) > maxWidth /\ Len(d) > 1
    THEN ShrinkDisk(slice(d), maxWidth)
    ELSE d

addTextDisk(text, coord) ==
    IF text = <<>> \/ text = DefNA \/ ~coord.present THEN NothingDrawn
    ELSE LET textToPrint == trim(text)
         IN  IF textToPrint = <<>> THEN NothingDrawn
             ELSE IF coord.maxWidth # 0 /\ measureText(textToPrint) > coord.maxWidth
                  THEN ShrinkDisk(textToPrint, coord.maxWidth) \o Ellipsis
                  ELSE textToPrint

addText(variant, text, coord) ==
    IF variant = "cloudinary" THEN addTextCloud(text, coord)
    ELSE addTextDisk(text, coord)

AddTextCalls ==
    [ variant : Variants, text : SeqsUpTo(TextChars, MaxText), coord : Coords ]

InitText ==
    /\ addTextIn \in AddTextCalls
    /\ displayText = <<>>
    /\ textPc = "ready"
    /\ csvBuffer = <<>> /\ parsed = <<>> /\ parsePc = "idle"
    /\ ComposeIdle /\ PhotoIdle /\ FetchIdle /\ LineIdle /\ TemplateIdle
    /\ NoRequests

AddText ==
    /\ textPc = "ready"
    /\ displayText' = addText(addTextIn.variant, addTextIn.text, addTextIn.coord)
    /\ textPc' = "drawn"
    /\ UNCHANGED <<addTextIn, parseVars, pipeVars, composeVars, photoVars, fetchVars,
                   lineVars,
                   templateVars>>

NextText == AddText

SpecText == InitText /\ [][NextText]_vars

----------------------------------------------------------------------------
(* The compositor: generateCardsWithCloudinary and generateCardsInMemory,   *)
(* one call, stepped at its awaits (template load, photo load, back load).  *)

\* the photo reference handed to the compositor: none, one whose image loads,
\* one whose bytes fail to load or decode, one that points at nothing
PhotoRefs == {"absent", "loadable", "corrupt", "missing"}

FieldNames == {"name", "class", "level", "gender", "residence", "academic_year"}

\* the order of the addText calls
FieldOrder(variant) ==
    IF variant = "cloudinary"
    THEN <<"name", "class", "level", "gender", "residence", "academic_year">>
    ELSE <<"name", "class", "level", "residence", "gender", "academic_year">>

FieldText(student, f) ==
    CASE f = "name"          -> student.name
      [] f = "class"         -> student.class
      [] f = "level"         -> student.level
      [] f = "gender"        -> student.gender
      [] f = "residence"     -> student.residence
      [] f = "academic_year" -> student.academic_year

\* the coordinates document: whether it has a photo rectangle, which text
\* fields it places, and the maxWidth of those entries (0: none)
CoordMaps ==
    [ photo : BOOLEAN, fields : {{}, {"name"}, FieldNames}, maxWidth : {0, 3} ]

CoordOf(coordinates, f) ==
    [present |-> f \in coordinates.fields, maxWidth |-> coordinates.maxWidth]

ComposeStudents == {StudentOfLine(S1Line, 1), StudentOfLine(BlankIdLine, 1)}

\* the canvas calls that may throw while a card is composed: drawing the
\* loaded photo, drawing the placeholder, ctx.fillText, drawing the back side
Faults == {"photoDraw", "placeholderDraw", "textDraw", "backDraw"}

JobsWith(faultSets) ==
    [ variant : Variants, student : ComposeStudents, coordinates : CoordMaps,
      photoRef : PhotoRefs,
      templateFront : {"loads", "fails"},
      templateBack : {"absent", "loads", "fails"},
      faults : faultSets ]

\* the jobs on a canvas whose drawing calls all succeed
ComposeJobs == JobsWith({{}})

\* the jobs on a canvas where any of the drawing calls may throw
FaultyJobs == JobsWith(SUBSET Faults)

BlankCanvas ==
    [ template |-> FALSE, photo |-> "none", texts |-> <<>>, front |-> FALSE,
      back |-> "none", loads |-> <<>>, result |-> "none" ]

InitComposeOf(jobs) ==
    /\ job \in jobs
    /\ canvas = BlankCanvas
    /\ composePc = "template"
    /\ csvBuffer = <<>> /\ parsed = <<>> /\ parsePc = "idle"
    /\ TextIdle /\ PhotoIdle /\ FetchIdle /\ LineIdle /\ TemplateIdle
    /\ NoRequests

InitCompose == InitComposeOf(ComposeJobs)

InitComposeFaults == InitComposeOf(FaultyJobs)

\* await loadImage(template.frontSide...): a throw reaches the outer catch,
\* which rethrows; otherwise the canvas is created and the template drawn
ComposeLoadTemplate ==
    /\ composePc = "template"
    /\ IF job.templateFront = "loads"
       THEN /\ canvas' = [canvas EXCEPT !.template = TRUE,
                                         !.loads = Append(@, "front")]
            /\ composePc' = "photo"
       ELSE /\ canvas' = [canvas EXCEPT !.result = "threw",
                                         !.loads = Append(@, "front")]
            /\ composePc' = "done"
    /\ UNCHANGED <<job, parseVars, pipeVars, textVars, photoVars, fetchVars,
                   lineVars,
                   templateVars>>

\* whether the compositor tries to load the photo:
\* studentPhotoUrl && coordinates.photo, resp.
\* photoPath && fs.existsSync(photoPath) && coordinates.photo
TriesPhoto(j) ==
    /\ j.coordinates.photo
    /\ j.photoRef # "absent"
    /\ j.variant = "disk" => j.photoRef # "missing"

\* drawPhotoPlaceholder, resp. the inline placeholder drawing: it runs in the
\* catch block or in the else branch, outside every inner try
drawPhotoPlaceholder(j, c) ==
    IF "placeholderDraw" \in j.faults THEN [c EXCEPT !.result = "threw"]
    ELSE [c EXCEPT !.photo = "placeholder"]

\* a slip: the photo's load error is not caught
OnPhotoError_Rethrow(j, c) == [c EXCEPT !.result = "threw"]

\* catch (photoError): warn and draw the placeholder
OnPhotoError(j, c) == drawPhotoPlaceholder(j, c)

\* the photo region after the photo block: loading and drawing the photo are
\* inside the try
PhotoBlock(j, c) ==
    IF TriesPhoto(j)
    THEN LET c1 == [c EXCEPT !.loads = Append(@, "photo")]
         IN  IF j.photoRef = "loadable" /\ "photoDraw" \notin j.faults
             THEN [c1 EXCEPT !.photo = "real"]
             ELSE OnPhotoError(j, c1)
    ELSE IF j.coordinates.photo THEN drawPhotoPlaceholder(j, c)
    ELSE c

\* whether a throwing ctx.fillText leaves addText: the cloudinary addText has
\* no try, the disk addText catches textError
TextThrows(j, texts) ==
    /\ "textDraw" \in j.faults
    /\ j.variant = "cloudinary"
    /\ texts # <<>>

\* the texts on the canvas: none when every ctx.fillText throws
TextsDrawn(j, texts) == IF "textDraw" \in j.faults THEN <<>> ELSE texts

\* the addText calls, in order; a call that returns early draws nothing
RECURSIVE TextBlock(_, _, _)
TextBlock(j, order, k) ==
    IF k > Len(order) THEN <<>>
    ELSE LET f == order[k]
             d == addText(j.variant, FieldText(j.student, f), CoordOf(j.coordinates, f))
         IN  (IF d = NothingDrawn THEN <<>> ELSE <<[field |-> f, text |-> d]>>)
             \o TextBlock(j, order, k + 1)

\* the photo block, the text fields and canvas.toBuffer for the front side
ComposeFront ==
    /\ composePc = "photo"
    /\ LET c == PhotoBlock(job, canvas)
       IN  IF c.result = "threw"
           THEN canvas' = c /\ composePc' = "done"
           ELSE LET texts == TextBlock(job, FieldOrder(job.variant), 1)
                IN  IF TextThrows(job, texts)
                    THEN /\ canvas' = [c EXCEPT !.result = "threw"]
                         /\ composePc' = "done"
                    ELSE /\ canvas' = [c EXCEPT !.texts = TextsDrawn(job, texts),
                                                 !.front = TRUE]
                         /\ composePc' = "back"
    /\ UNCHANGED <<job, parseVars, pipeVars, textVars, photoVars, fetchVars,
                   lineVars,
                   templateVars>>

\* the back side: the back template when it loads, a white page when the
\* cloudinary template has none, an empty canvas when loading throws
ComposeBack ==
    /\ composePc = "back"
    /\ canvas' =
         IF job.templateBack = "loads" /\ "backDraw" \notin job.faults
         THEN [canvas EXCEPT !.back = "template", !.loads = Append(@, "back"),
                             !.result = "pair"]
         ELSE IF job.templateBack = "loads"
         THEN [canvas EXCEPT !.back = "blank", !.loads = Append(@, "back"),
                             !.result = "pair"]
         ELSE IF job.templateBack = "absent" /\ job.variant = "cloudinary"
                 /\ "backDraw" \notin job.faults
         THEN [canvas EXCEPT !.back = "white", !.result = "pair"]
         ELSE IF job.templateBack = "absent"
         THEN [canvas EXCEPT !.back = "blank", !.result = "pair"]
         ELSE [canvas EXCEPT !.back = "blank", !.loads = Append(@, "back"),
                             !.result = "pair"]
    /\ composePc' = "done"
    /\ UNCHANGED <<job, parseVars, pipeVars, textVars, photoVars, fetchVars,
                   lineVars,
                   templateVars>>

NextCompose ==
    \/ ComposeLoadTemplate
    \/ ComposeFront
    \/ ComposeBack

SpecCompose == InitCompose /\ [][NextCompose]_vars

SpecComposeFaults == InitComposeFaults /\ [][NextCompose]_vars

----------------------------------------------------------------------------
(* The photo extractor: extractAndUploadPhotosToCloudinary starts one       *)
(* processPhotoFile per image entry and awaits them all.  Each task runs up *)
(* to its first await when it is started, then reads the entry's bytes,     *)
(* then uploads them.                                                       *)

\* Most entries in a photo archive handed to the extractor on its own.
MaxEntries == 2

JpgDir   == <<"d","1",".","j","p","g","/">>
NestedS1 == <<"p","/","S","1",".","j","p","e","g">>

EntryNames == {S1jpg, S2PNG, Notes, Ajpg, JpgDir, NestedS1}

\* what will happen to an entry's read and upload: both succeed, the bytes are
\* empty, reading them throws, or the upload throws
EntryFates == {"uploads", "empty", "unreadable", "rejected"}

\* zipData.files is keyed by entry name: no two entries have the same name
ZipFiles ==
    {z \in SeqsUpTo([name : EntryNames, fate : EntryFates], MaxEntries) :
        \A i, j \in 1..Len(z) : i # j => z[i].name # z[j].name}

\* the buffer is a zip archive with its entries, or zip.loadAsync throws
ZipBuffers ==
    [corrupt : {FALSE}, files : ZipFiles] \cup [corrupt : {TRUE}, files : {<<>>}]

\* !file.dir && fileName.match(/\.(jpg|jpeg|png|gif|bmp)$/i)
IsPhotoEntry(fileName) == ~IsDir(fileName) /\ HasImageExt(fileName)

\* a slip: one-character identifiers are let through
StemTooShort_Never(studentId) == FALSE

\* !studentId || studentId.length < 2
StemTooShort(studentId) == Len(studentId) < MinIdLength

\* processPhotoFile up to its first await
StartTask(entry) ==
    IF ~IsPhotoEntry(entry.name) THEN "none"
    ELSE IF StemTooShort(PathName(entry.name)) THEN "skipped"
    ELSE "reading"

InFlight == {"reading", "uploading"}

\* a slip: the promises are not awaited
AllSettled_NoAwait(t) == TRUE

\* await Promise.all(filePromises) resolves: no task is at an await
AllSettled(t) == \A i \in 1..Len(t) : t[i] \notin InFlight

InitExtract ==
    /\ zipIn \in ZipBuffers
    /\ tasks = [i \in 1..Len(zipIn.files) |-> "none"]
    /\ photoCloudinaryMap = <<>>
    /\ extractPc = "load"
    /\ csvBuffer = <<>> /\ parsed = <<>> /\ parsePc = "idle"
    /\ TextIdle /\ ComposeIdle /\ FetchIdle /\ LineIdle /\ TemplateIdle
    /\ NoRequests

\* zip.loadAsync and the loop that starts the tasks; a buffer that is no zip
\* archive throws to the catch, which returns {}
ExtractStart ==
    /\ extractPc = "load"
    /\ IF zipIn.corrupt
       THEN tasks' = tasks /\ extractPc' = "returned"
       ELSE /\ tasks' = [i \in 1..Len(zipIn.files) |-> StartTask(zipIn.files[i])]
            /\ extractPc' = "awaiting"
    /\ UNCHANGED <<zipIn, photoCloudinaryMap, parseVars, pipeVars, textVars,
                   composeVars, fetchVars,
                   lineVars,
                   templateVars>>

\* await file.async('nodebuffer') of task i settles
ReadDone(i) ==
    /\ extractPc = "awaiting" /\ tasks[i] = "reading"
    /\ tasks' = [tasks EXCEPT ![i] =
                    CASE zipIn.files[i].fate = "unreadable" -> "failed"
                      [] zipIn.files[i].fate = "empty"      -> "skipped"
                      [] OTHER                              -> "uploading"]
    /\ UNCHANGED <<zipIn, photoCloudinaryMap, extractPc, parseVars, pipeVars,
                   textVars, composeVars, fetchVars,
                   lineVars,
                   templateVars>>

\* uploadResult of entry i: the asset made from that entry's bytes (its
\* public_id begins with the stem; width, height, format and bytes are the
\* entry's)
UploadResult(i) ==
    [ secure_url |-> UrlOf(PathName(zipIn.files[i].name)),
      entry      |-> zipIn.files[i].name ]

\* photoCloudinaryMap[studentId] = { secure_url: uploadResult.secure_url, ... }
Store(map, i) == Put(map, PathName(zipIn.files[i].name), UploadResult(i))

\* await cloudinary.uploader.upload(...) of task i settles
UploadDone(i) ==
    /\ extractPc = "awaiting" /\ tasks[i] = "uploading"
    /\ IF zipIn.files[i].fate = "uploads"
       THEN /\ photoCloudinaryMap' = Store(photoCloudinaryMap, i)
            /\ tasks' = [tasks EXCEPT ![i] = "stored"]
       ELSE /\ photoCloudinaryMap' = photoCloudinaryMap
            /\ tasks' = [tasks EXCEPT ![i] = "failed"]
    /\ UNCHANGED <<zipIn, extractPc, parseVars, pipeVars, textVars, composeVars, fetchVars,
                   lineVars,
                   templateVars>>

\* return photoCloudinaryMap
ExtractReturn ==
    /\ extractPc = "awaiting"
    /\ AllSettled(tasks)
    /\ extractPc' = "returned"
    /\ UNCHANGED <<zipIn, tasks, photoCloudinaryMap, parseVars, pipeVars,
                   textVars, composeVars, fetchVars,
                   lineVars,
                   templateVars>>

NextExtract ==
    \/ ExtractStart
    \/ \E i \in 1..Len(tasks) : ReadDone(i)
    \/ \E i \in 1..Len(tasks) : UploadDone(i)
    \/ ExtractReturn

SpecExtract == InitExtract /\ [][NextExtract]_vars

----------------------------------------------------------------------------
(* loadImageFromUrl: one load, and for a Cloudinary URL that failed a second *)
(* load of the URL with optimization parameters.  A URL is a sequence of    *)
(* segments.                                                                *)

\* Most segments in a URL handed to loadImageFromUrl.
MaxUrl == 3

SegCloudinary == "cloudinary.com"
SegUpload     == "/upload/"
SegOptimized  == "/upload/q_auto,f_auto/"

UrlSegments == {"https://", SegCloudinary, SegUpload, "photo.jpg"}

Urls == SeqsUpTo(UrlSegments, MaxUrl)

\* url.includes('cloudinary.com')
IsCloudinaryUrl(url) == \E k \in 1..Len(url) : url[k] = SegCloudinary

\* url.replace(/\/upload\//, '/upload/q_auto,f_auto/'): the first match only
OptimizedUrl(url) ==
    LET at == {k \in 1..Len(url) : url[k] = SegUpload}
    IN  IF at = {} THEN url
        ELSE [url EXCEPT ![CHOOSE k \in at : \A j \in at : k <= j] = SegOptimized]

\* the calls: the URL, and whether the first and the second load succeed
FetchCalls == [url : Urls, firstLoads : BOOLEAN, retryLoads : BOOLEAN]

\* one loadImage call: the URL it was given, and whether a delay preceded it
Attempt(url) == [url |-> url, waited |-> FALSE]

InitFetch ==
    /\ fetchIn \in FetchCalls
    /\ fetchRun = [log |-> <<>>, out |-> <<>>]
    /\ fetchPc = "try"
    /\ csvBuffer = <<>> /\ parsed = <<>> /\ parsePc = "idle"
    /\ TextIdle /\ ComposeIdle /\ PhotoIdle /\ LineIdle /\ TemplateIdle
    /\ NoRequests

\* return await loadImage(url), or its catch: a Cloudinary URL goes on to the
\* second load, any other URL rethrows the error
FetchTry ==
    /\ fetchPc = "try"
    /\ LET log == Append(fetchRun.log, Attempt(fetchIn.url))
       IN  IF fetchIn.firstLoads
           THEN /\ fetchRun' = [log |-> log, out |-> [ok |-> TRUE, of |-> fetchIn.url]]
                /\ fetchPc' = "done"
           ELSE IF IsCloudinaryUrl(fetchIn.url)
           THEN /\ fetchRun' = [log |-> log, out |-> <<>>]
                /\ fetchPc' = "retry"
           ELSE /\ fetchRun' = [log |-> log, out |-> [ok |-> FALSE, of |-> fetchIn.url]]
                /\ fetchPc' = "done"
    /\ UNCHANGED <<fetchIn, parseVars, pipeVars, textVars, composeVars, photoVars,
                   lineVars,
                   templateVars>>

\* return await loadImage(optimizedUrl): its image, or its error
FetchRetry ==
    /\ fetchPc = "retry"
    /\ LET optimizedUrl == OptimizedUrl(fetchIn.url)
       IN  fetchRun' = [log |-> Append(fetchRun.log, Attempt(optimizedUrl)),
                        out |-> [ok |-> fetchIn.retryLoads, of |-> optimizedUrl]]
    /\ fetchPc' = "done"
    /\ UNCHANGED <<fetchIn, parseVars, pipeVars, textVars, composeVars, photoVars,
                   lineVars,
                   templateVars>>

NextFetch ==
    \/ FetchTry
    \/ FetchRetry

SpecFetch == InitFetch /\ [][NextFetch]_vars

----------------------------------------------------------------------------
(* The line splitter on its own: one call of parseCSVLine on a line, with    *)
(* quotes balanced or not.                                                  *)

MaxLine == 6

LineChars == {"a", ",", "\"", " "}

Lines == SeqsUpTo(LineChars, MaxLine)

InitLine ==
    /\ lineIn \in Lines
    /\ lineOut = <<>>
    /\ linePc = "call"
    /\ csvBuffer = <<>> /\ parsed = <<>> /\ parsePc = "idle"
    /\ TextIdle /\ ComposeIdle /\ PhotoIdle /\ FetchIdle /\ TemplateIdle
    /\ NoRequests

ParseLine ==
    /\ linePc = "call"
    /\ lineOut' = parseCSVLine(lineIn)
    /\ linePc' = "returned"
    /\ UNCHANGED <<lineIn, parseVars, pipeVars, textVars, composeVars, photoVars,
                   fetchVars,
                   templateVars>>

NextLine == ParseLine

SpecLine == InitLine /\ [][NextLine]_vars

----------------------------------------------------------------------------
(* The template routes (routes/templates.js): POST /upload and               *)
(* PATCH /:id/set-default, as concurrent requests on the Template            *)
(* collection.  Each await is a step of its own.                            *)

MaxTemplateRequests == 2

TemplateA == <<"T","A">>
TemplateB == <<"T","B">>

\* the id of the template request r uploads
NewId(r) == <<"N">> \o toString(r)

\* the collection before the requests: two templates, at most one the default
TemplateDbs ==
    { [t \in {TemplateA, TemplateB} |-> [isDefault |-> t = d]] :
        d \in {TemplateA, TemplateB, NoId} }

\* POST /upload with or without both files and with or without setAsDefault;
\* PATCH /:id/set-default for a stored template or for an id that is not stored
TemplateForms ==
    [kind : {"upload"}, files : BOOLEAN, setAsDefault : BOOLEAN, id : {NoId}]
      \cup [kind : {"set-default"}, files : {FALSE}, setAsDefault : {FALSE},
            id : {TemplateA, TemplateB, TemplateT9}]

NoResponse == [status |-> 0, success |-> FALSE]

InitTemplates ==
    /\ templateDb \in TemplateDbs
    /\ tReq \in [1..MaxTemplateRequests -> TemplateForms]
    /\ tRes = [r \in 1..MaxTemplateRequests |-> NoResponse]
    /\ tPc = [r \in 1..MaxTemplateRequests |-> "start"]
    /\ csvBuffer = <<>> /\ parsed = <<>> /\ parsePc = "idle"
    /\ TextIdle /\ ComposeIdle /\ PhotoIdle /\ FetchIdle /\ LineIdle
    /\ NoRequests

\* Template.updateMany(..., { $set: { isDefault: false } })
UnsetAll(coll) == [t \in DOMAIN coll |-> [coll[t] EXCEPT !.isDefault = FALSE]]

\* upload without both files: 400
UploadReject(r) ==
    /\ tPc[r] = "start" /\ tReq[r].kind = "upload"
    /\ ~tReq[r].files
    /\ tRes' = [tRes EXCEPT ![r] = [status |-> 400, success |-> FALSE]]
    /\ tPc' = [tPc EXCEPT ![r] = "done"]
    /\ UNCHANGED <<templateDb, tReq, parseVars, pipeVars, textVars, composeVars,
                   photoVars, fetchVars, lineVars>>

\* if (template.isDefault) await Template.updateMany({}, ...)
UploadUnset(r) ==
    /\ tPc[r] = "start" /\ tReq[r].kind = "upload"
    /\ tReq[r].files /\ tReq[r].setAsDefault
    /\ templateDb' = UnsetAll(templateDb)
    /\ tPc' = [tPc EXCEPT ![r] = "save"]
    /\ UNCHANGED <<tReq, tRes, parseVars, pipeVars, textVars, composeVars,
                   photoVars, fetchVars, lineVars>>

\* await template.save(), with isDefault: setAsDefault === 'true'; res.json
UploadSave(r) ==
    /\ tReq[r].kind = "upload"
    /\ \/ tPc[r] = "save"
       \/ tPc[r] = "start" /\ tReq[r].files /\ ~tReq[r].setAsDefault
    /\ templateDb' = Put(templateDb, NewId(r), [isDefault |-> tReq[r].setAsDefault])
    /\ tRes' = [tRes EXCEPT ![r] = [status |-> 200, success |-> TRUE]]
    /\ tPc' = [tPc EXCEPT ![r] = "done"]
    /\ UNCHANGED <<tReq, parseVars, pipeVars, textVars, composeVars,
                   photoVars, fetchVars, lineVars>>

\* await Template.updateMany({ isDefault: true }, { $set: { isDefault: false } })
SetDefaultUnset(r) ==
    /\ tPc[r] = "start" /\ tReq[r].kind = "set-default"
    /\ templateDb' = UnsetAll(templateDb)
    /\ tPc' = [tPc EXCEPT ![r] = "set"]
    /\ UNCHANGED <<tReq, tRes, parseVars, pipeVars, textVars, composeVars,
                   photoVars, fetchVars, lineVars>>

\* await Template.findByIdAndUpdate(req.params.id, { isDefault: true }), which
\* resolves to null when no template has the id; res.json({ success: true })
\* in both cases
SetDefaultSet(r) ==
    /\ tPc[r] = "set" /\ tReq[r].kind = "set-default"
    /\ templateDb' = IF Has(templateDb, tReq[r].id)
                     THEN [templateDb EXCEPT ![tReq[r].id].isDefault = TRUE]
                     ELSE templateDb
    /\ tRes' = [tRes EXCEPT ![r] = [status |-> 200, success |-> TRUE]]
    /\ tPc' = [tPc EXCEPT ![r] = "done"]
    /\ UNCHANGED <<tReq, parseVars, pipeVars, textVars, composeVars,
                   photoVars, fetchVars, lineVars>>

NextTemplates ==
    \/ \E r \in DOMAIN tReq : UploadReject(r)
    \/ \E r \in DOMAIN tReq : UploadUnset(r)
    \/ \E r \in DOMAIN tReq : UploadSave(r)
    \/ \E r \in DOMAIN tReq : SetDefaultUnset(r)
    \/ \E r \in DOMAIN tReq : SetDefaultSet(r)

SpecTemplates == InitTemplates /\ [][NextTemplates]_vars

----------------------------------------------------------------------------
(* Properties of the batch render loop and the archive.                     *)

Rows(r) == 1..Len(hist[r].rows)

\* positions of the archive's entries that belong to roster row k
EntriesOf(r, k) == {i \in 1..Len(archive[r]) : archive[r][i].row = k}

BatchFinalized(r) == req[r].kind = "batch" /\ res[r].finalized

\* C1: when a batch archive is finalized it holds exactly two entries per
\* student whose render produced a front image, none for a student whose
\* render failed, and every saved student was attempted, the ones after a
\* failed student included.
C1_EntryCount ==
    \A r \in DOMAIN req :
        BatchFinalized(r) =>
            /\ Len(archive[r]) =
                 2 * Cardinality({k \in Rows(r) : hist[r].rows[k].outcome = "Rendered"})
            /\ \A k \in Rows(r) :
                 /\ hist[r].rows[k].outcome = "Failed" => EntriesOf(r, k) = {}
                 /\ hist[r].rows[k].outcome = "Rendered" => Cardinality(EntriesOf(r, k)) = 2
                 /\ hist[r].rows[k].rosterSave = "ok" => hist[r].rows[k].outcome # "Pending"

\* a finalized batch in which a student failed and a later one was packaged
C1_Witness ==
    \E r \in DOMAIN req :
        /\ BatchFinalized(r)
        /\ \E j, k \in Rows(r) :
              /\ j < k
              /\ hist[r].rows[j].outcome = "Failed"
              /\ hist[r].rows[k].outcome = "Rendered"
              /\ Cardinality(EntriesOf(r, k)) = 2

\* C2: the archive is a sequence of pairs, each the front entry then the back
\* entry of one student, named <student_id>/front-side.png and
\* <student_id>/back-side.png, and the pairs follow the order in which the
\* students were processed.
C2_EntryOrder ==
    \A r \in DOMAIN req :
        /\ Len(archive[r]) % 2 = 0
        /\ \A i \in 1..(Len(archive[r]) \div 2) :
              LET f   == archive[r][2 * i - 1]
                  b   == archive[r][2 * i]
                  sid == students[r][f.row].student_id
              IN  /\ req[r].kind = "batch" => f.name = sid \o FrontSuffix
                  /\ req[r].kind = "batch" => b.name = sid \o BackSuffix
                  /\ f.row = b.row
                  /\ SubSeq(f.name, 1, Len(f.name) - Len(FrontSuffix))
                       = SubSeq(b.name, 1, Len(b.name) - Len(BackSuffix))
                  /\ endsWith(f.name, FrontSuffix) /\ endsWith(b.name, BackSuffix)
        /\ \A i, j \in 1..(Len(archive[r]) \div 2) :
              i < j => archive[r][2 * i].row < archive[r][2 * j - 1].row

\* an archive holding the pairs of two different students
C2_Witness ==
    \E r \in DOMAIN req :
        /\ req[r].kind = "batch"
        /\ Len(archive[r]) = 4
        /\ archive[r][1].name # archive[r][3].name

\* C3 (state part): no student is attempted twice, and when the batch is
\* finalized every saved student was attempted exactly once, with its entries
\* and its ledger update decided by its own render alone.
C3_Inv ==
    \A r \in DOMAIN req : \A k \in Rows(r) :
        LET row == hist[r].rows[k]
        IN  /\ row.attempts <= 1
            /\ req[r].kind = "batch" /\ row.rosterSave # "ok" => row.attempts = 0
            /\ BatchFinalized(r) /\ row.rosterSave = "ok" =>
                 /\ row.attempts = 1
                 /\ row.outcome \in {"Rendered", "Failed"}
                 /\ row.outcome = "Rendered" =>
                      Cardinality(EntriesOf(r, k)) = 2 /\ row.ledgerSave # "none"
                 /\ row.outcome = "Failed" =>
                      EntriesOf(r, k) = {} /\ row.ledgerSave = "none"

\* C3 (step part): an outcome, once Rendered or Failed, never changes and the
\* student is not attempted again.
C3_Step ==
    \A r \in DOMAIN req : \A k \in Rows(r) :
        hist[r].rows[k].outcome # "Pending" =>
            /\ hist'[r].rows[k].outcome = hist[r].rows[k].outcome
            /\ hist'[r].rows[k].attempts = hist[r].rows[k].attempts

\* C3: in a batch every saved student is attempted exactly once, its outcome
\* is terminal, and a student's failure leaves the rendering, packaging and
\* ledger update of the other students as they would have been.
C3_AttemptedOnce == []C3_Inv /\ [][C3_Step]_vars

\* a finalized batch of two saved students, the first failed, the second
\* rendered and its ledger update saved
C3_Witness ==
    \E r \in DOMAIN req :
        /\ BatchFinalized(r)
        /\ Len(savedStudents[r]) = 2
        /\ hist[r].rows[savedStudents[r][1].row].outcome = "Failed"
        /\ hist[r].rows[savedStudents[r][2].row].outcome = "Rendered"
        /\ hist[r].rows[savedStudents[r][2].row].ledgerSave = "ok"

\* C4: once the response stream of a batch has errored, no further student is
\* rendered, no entry is appended and no ledger update is saved.
C4_AbortOnStreamError ==
    [][ \A r \in DOMAIN req :
          hist[r].streamError =>
              /\ archive'[r] = archive[r]
              /\ hist'[r].rows = hist[r].rows
              /\ db' = db ]_vars

\* C5: after the zip headers are set and the archive is piped to the response,
\* no JSON error response is attempted.
C5_NoJsonAfterStream ==
    \A r \in DOMAIN req : ~(res[r].piped /\ res[r].json)

----------------------------------------------------------------------------
(* Properties of the rejections and of persistence failures.                *)

\* the generation metadata of a stored document
LedgerOf(d) == <<d.card_generated, d.card_generation_count,
                 d.last_card_generated, d.first_card_generated>>

\* no stored document's generation metadata differs from what it was before
\* the request (a document created since has the schema's defaults)
LedgerUntouched ==
    \A sid \in DOMAIN db :
        LedgerOf(db[sid]) = IF Has(db0, sid) THEN LedgerOf(db0[sid])
                            ELSE <<FALSE, 0, 0, 0>>

InputMissing(r) ==
    \/ req[r].kind = "batch"
       /\ (~req[r].csv.present \/ req[r].templateId = NoId)
    \/ req[r].kind = "single"
       /\ (req[r].studentId = NoId \/ req[r].templateId = NoId)

\* C6: a batch request without roster file or template id, and a single-card
\* request without student id or template id, is answered 400 before anything
\* is done: nothing parsed, uploaded, read, written or rendered, and the
\* Student collection and the asset store are as they were.
C6_RejectBeforeProcessing ==
    \A r \in DOMAIN req :
        InputMissing(r) =>
            /\ hist[r].ops = {}
            /\ db = db0 /\ assets = 0
            /\ archive[r] = <<>> /\ students[r] = <<>> /\ savedStudents[r] = <<>>
            /\ ~res[r].zipHeaders /\ ~res[r].piped /\ ~res[r].sentZip
            /\ pc[r] \in {"validate", "done"}
            /\ pc[r] = "done" => res[r].status = 400 /\ res[r].json

\* a batch request that has a roster but no template id, rejected while the
\* collection holds a student
C6_Witness ==
    \E r \in DOMAIN req :
        /\ req[r].kind = "batch" /\ req[r].csv.present /\ req[r].templateId = NoId
        /\ pc[r] = "done" /\ res[r].status = 400
        /\ db # <<>>

NotFound(r) ==
    /\ ~InputMissing(r)
    /\ \/ req[r].templateId \notin Templates
       \/ req[r].kind = "single" /\ ~Has(db0, req[r].studentId)

\* C7: when the template (or, for a single card, the student) does not exist,
\* the request is rejected before rendering: the compositor is never called,
\* the archive stays empty, no zip headers are set and no ledger update is
\* applied.
C7_NotFoundBeforeRender ==
    \A r \in DOMAIN req :
        NotFound(r) =>
            /\ hist[r].ops \cap {"render", "append", "ledger"} = {}
            /\ archive[r] = <<>>
            /\ ~res[r].zipHeaders /\ ~res[r].piped /\ ~res[r].sentZip
            /\ LedgerUntouched
            /\ pc[r] = "done" => res[r].json /\ res[r].status \in {404, 500}

\* a cloudinary batch answered 404 after its roster was persisted
C7_Witness ==
    \E r \in DOMAIN req :
        /\ req[r].kind = "batch" /\ req[r].templateId = TemplateT9
        /\ pc[r] = "done" /\ res[r].status = 404
        /\ Len(savedStudents[r]) > 0

HasPair(r, k) ==
    \E i \in 1..(Len(archive[r]) - 1) :
        /\ archive[r][i].row = k /\ archive[r][i + 1].row = k
        /\ endsWith(archive[r][i].name, FrontSuffix)
        /\ endsWith(archive[r][i + 1].name, BackSuffix)

\* C8 as stated: in a finalized batch, a student whose roster save or ledger
\* save failed still has its front and back images in the archive.
C8_Original ==
    \A r \in DOMAIN req :
        BatchFinalized(r) =>
            \A k \in Rows(r) :
                (hist[r].rows[k].rosterSave = "failed"
                   \/ hist[r].rows[k].ledgerSave = "failed") => HasPair(r, k)

\* C8 amended: a failed ledger save is only logged and the student's front and
\* back images stay in the archive; a failed roster save is only logged too,
\* but that student is left out of the render loop and has no entry.  Neither
\* failure produces an error response.
C8_Amended ==
    \A r \in DOMAIN req :
        req[r].kind = "batch" =>
            \A k \in Rows(r) :
                LET row == hist[r].rows[k]
                IN  /\ row.ledgerSave = "failed" => HasPair(r, k)
                    /\ row.rosterSave = "failed" =>
                          /\ row.attempts = 0 /\ EntriesOf(r, k) = {}
                          /\ \A i \in 1..Len(savedStudents[r]) :
                                savedStudents[r][i].row # k
                    /\ (row.ledgerSave = "failed" \/ row.rosterSave = "failed")
                         /\ pc[r] = "done"
                         /\ req[r].coordinates # "malformed"
                         /\ req[r].templateId \in Templates
                         => res[r].finalized /\ ~res[r].json

\* a finalized batch with one roster save failed and one ledger save failed
C8_Witness ==
    \E r \in DOMAIN req :
        /\ BatchFinalized(r)
        /\ \E j, k \in Rows(r) :
              /\ hist[r].rows[j].rosterSave = "failed"
              /\ hist[r].rows[k].ledgerSave = "failed"
              /\ HasPair(r, k)

\* the step of request r that applies the ledger update to its document
LedgerStep(r) == pc[r] \in {"ledger", "zip"} /\ pc'[r] = "save"

\* C9: a ledger update sets card_generated, adds exactly 1 to
\* card_generation_count, sets last_card_generated to the current time, and
\* sets first_card_generated to the current time only when it was unset; a
\* failed render changes no document.
C9_LedgerUpdate ==
    [][ \A r \in DOMAIN req :
          /\ LedgerStep(r) =>
               LET old == savedStudents[r][idx[r]].doc
                   new == savedStudents'[r][idx[r]].doc
               IN  /\ new.card_generated = TRUE
                   /\ new.card_generation_count = old.card_generation_count + 1
                   /\ new.last_card_generated = clock
                   /\ new.first_card_generated =
                        IF old.first_card_generated = 0 THEN clock'
                        ELSE old.first_card_generated
          /\ (\E k \in Rows(r) : hist[r].rows[k].outcome = "Pending"
                                 /\ hist'[r].rows[k].outcome = "Failed")
               => db' = db /\ savedStudents' = savedStudents ]_vars

----------------------------------------------------------------------------
(* Properties of the roster parser.                                         *)

\* the documented default of a blank categorical column
DocumentedNA == <<"N","/","A">>

\* the lines of a buffer that hold a character other than white space
TextLines(buf) ==
    SelectSeq(split(buf), LAMBDA l : \E i \in 1..Len(l) : ~IsSpace(l[i]))

\* a header row names the identifier or the name column (in any letter case)
IsHeaderRow(line) ==
    \/ includes(toLowerCase(line), TokStudentId)
    \/ includes(toLowerCase(line), TokName)

\* the data lines: every non-blank line, the first excepted when it is a header
DataLines(buf) ==
    LET ls == TextLines(buf)
    IN  IF Len(ls) > 0 /\ IsHeaderRow(ls[1]) THEN Tail(ls) ELSE ls

\* the parsed value of column j (0-based) of a line, <<>> when blank or missing
ColumnOf(line, j) ==
    LET cells == parseCSVLine(trim(line))
    IN  IF j + 1 <= Len(cells) THEN cells[j + 1] ELSE <<>>

\* value is the line's column j, or dflt when that column is blank or missing
ParsedOrDefault(value, line, j, dflt) ==
    value = IF ColumnOf(line, j) # <<>> THEN ColumnOf(line, j) ELSE dflt

\* record rec is what the documentation promises for the data line
RecordPopulated(rec, line) ==
    /\ IF ColumnOf(line, 0) # <<>> THEN rec.student_id = ColumnOf(line, 0)
       ELSE Len(rec.student_id) > Len(PrefixSTU)
            /\ SubSeq(rec.student_id, 1, Len(PrefixSTU)) = PrefixSTU
    /\ IF ColumnOf(line, 1) # <<>> THEN rec.name = ColumnOf(line, 1)
       ELSE rec.name # <<>>
    /\ ParsedOrDefault(rec.class, line, 2, DocumentedNA)
    /\ ParsedOrDefault(rec.level, line, 3, DocumentedNA)
    /\ ParsedOrDefault(rec.residence, line, 4, DocumentedNA)
    /\ ParsedOrDefault(rec.gender, line, 5, DocumentedNA)
    /\ ParsedOrDefault(rec.academic_year, line, 6, DocumentedNA)
    /\ ParsedOrDefault(rec.parent_phone, line, 7, <<>>)

\* C10: the parser returns one record per non-blank data line (the first line
\* is left out only when it is a header row), in input order, each field being
\* the parsed value or its documented default.
C10_ParseRecords ==
    parsePc = "parsed" =>
        LET data == DataLines(csvBuffer)
        IN  /\ Len(parsed) = Len(data)
            /\ \A k \in 1..Len(parsed) : RecordPopulated(parsed[k], data[k])

\* the record the documentation gives for the line STU001,Jane Doe,P5,,,,,
JaneRecord ==
    [ student_id    |-> <<"S","T","U","0","0","1">>,
      name          |-> <<"J","a","n","e"," ","D","o","e">>,
      class         |-> <<"P","5">>,
      level         |-> DocumentedNA,
      residence     |-> DocumentedNA,
      gender        |-> DocumentedNA,
      academic_year |-> DocumentedNA,
      parent_phone  |-> <<>> ]

\* C11: a blank or missing categorical column (class, level, residence,
\* gender, academic_year) is defaulted to 'N/A' and a blank guardian phone to
\* ''; the header-less line STU001,Jane Doe,P5,,,,, parses to JaneRecord.
C11_BlankColumnsDefault ==
    parsePc = "parsed" =>
        /\ \A k \in 1..Len(parsed) :
              k <= Len(DataLines(csvBuffer)) =>
                 LET line == DataLines(csvBuffer)[k]
                 IN  /\ ColumnOf(line, 2) = <<>> => parsed[k].class = DocumentedNA
                     /\ ColumnOf(line, 3) = <<>> => parsed[k].level = DocumentedNA
                     /\ ColumnOf(line, 4) = <<>> => parsed[k].residence = DocumentedNA
                     /\ ColumnOf(line, 5) = <<>> => parsed[k].gender = DocumentedNA
                     /\ ColumnOf(line, 6) = <<>> => parsed[k].academic_year = DocumentedNA
                     /\ ColumnOf(line, 7) = <<>> => parsed[k].parent_phone = <<>>
        /\ csvBuffer = JaneLine => parsed = <<JaneRecord>>

----------------------------------------------------------------------------
(* Properties of the text helper.                                           *)

Fits(s, maxWidth) == measureText(s) <= maxWidth

Prefix(t, n) == SubSeq(t, 1, n)

\* n is the length the truncation rule keeps: the longest proper prefix that
\* fits together with the ellipsis, or one character when no prefix does
KeptLength(t, maxWidth, n) ==
    LET fitting == {m \in 1..(Len(t) - 1) : Fits(Prefix(t, m) \o Ellipsis, maxWidth)}
    IN  /\ n \in 1..(Len(t) - 1)
        /\ IF fitting = {} THEN n = 1
           ELSE n \in fitting /\ \A m \in fitting : m <= n

\* C13: without a maxWidth, or when the text fits, the drawn string is the text
\* unchanged; otherwise it is a proper prefix of the text followed by an
\* ellipsis, the prefix being the longest whose prefix+ellipsis fits (one
\* character if none fits); an ellipsis only follows a dropped character.
C13_TruncationResult ==
    (textPc = "drawn" /\ displayText # NothingDrawn) =>
        LET t == addTextIn.text
            w == addTextIn.coord.maxWidth
        IN  IF w = 0 \/ Fits(t, w)
            THEN displayText = t
            ELSE \E n \in 1..Len(t) :
                    /\ KeptLength(t, w, n)
                    /\ displayText = Prefix(t, n) \o Ellipsis

\* C14: truncation is idempotent: text that fits is drawn unchanged, and the
\* output of a truncation, truncated again with the same maxWidth, is unchanged.
C14_TruncationIdempotent ==
    (textPc = "drawn" /\ displayText # NothingDrawn) =>
        /\ Fits(addTextIn.text, addTextIn.coord.maxWidth) =>
              displayText = addTextIn.text
        /\ addText(addTextIn.variant, displayText, addTextIn.coord) = displayText

----------------------------------------------------------------------------
(* Properties of the compositor.                                            *)

\* the photo is usable: a reference is given and its image loads
PhotoUsable(j) == j.photoRef = "loadable"

\* C12: a render never fails because of the photo.  Whatever the photo
\* reference does and whether or not the coordinates hold a photo rectangle,
\* a call whose template loads returns a front/back pair; the real photo is
\* drawn only when the rectangle is present and the photo loads, a placeholder
\* exactly when the rectangle is present and no usable photo is available, and
\* nothing when the rectangle is absent.
C12_PhotoNeverFailsRender ==
    (composePc = "done" /\ job.templateFront = "loads") =>
        /\ canvas.result = "pair" /\ canvas.front /\ canvas.back # "none"
        /\ canvas.photo = "real" <=> (job.coordinates.photo /\ PhotoUsable(job))
        /\ canvas.photo = "placeholder" <=> (job.coordinates.photo /\ ~PhotoUsable(job))
        /\ ~job.coordinates.photo => canvas.photo = "none"

\* a pair was returned although the photo failed to load into its rectangle
C12_Witness ==
    /\ composePc = "done" /\ canvas.result = "pair"
    /\ job.coordinates.photo /\ job.photoRef = "corrupt"
    /\ canvas.photo = "placeholder"

----------------------------------------------------------------------------
(* Properties of the single-card handler.                                   *)

----------------------------------------------------------------------------
(* Properties of the batch job's life cycle.                                *)

\* the phase a batch job is in, read off the handler's position; a job that
\* was answered with an error is Rejected
PhaseOf(p, f, finalized) ==
    CASE p \in {"validate", "parse"}              -> "Created"
      [] p = "template" /\ f.variant = "disk"     -> "Created"
      [] p = "photos"                             -> "Parsed"
      [] p \in {"persist", "persist_save"}        ->
            IF f.photoZip.present THEN "PhotosExtracted" ELSE "Parsed"
      [] p = "template" /\ f.variant = "cloudinary" -> "RosterPersisted"
      [] p = "stream"                             -> "RosterPersisted"
      [] p \in {"render", "ledger", "save"}       -> "Rendering"
      [] p = "done" /\ finalized                  -> "Completed"
      [] OTHER                                    -> "Rejected"

\* the phases that may follow a phase (Packaged and Completed are entered in
\* one step: the handler returns right after archive.finalize())
PhasesAfter(phase, f) ==
    CASE phase = "Created"         -> {"Created", "Parsed", "Rejected"}
      [] phase = "Parsed"          ->
            IF f.photoZip.present THEN {"Parsed", "PhotosExtracted"}
            ELSE {"Parsed", "RosterPersisted"}
      [] phase = "PhotosExtracted" -> {"PhotosExtracted", "RosterPersisted"}
      [] phase = "RosterPersisted" -> {"RosterPersisted", "Rendering", "Rejected"}
      [] phase = "Rendering"       -> {"Rendering", "Completed"}
      [] phase = "Completed"       -> {"Completed"}
      [] OTHER                     -> {"Rejected"}

\* C16: a batch job passes through Created, Parsed, PhotosExtracted (only with
\* a photo archive), RosterPersisted, Rendering, Packaged/Completed in that
\* order and never goes back; the archive is finalized once, only after every
\* saved student was attempted, and nothing is appended after finalization.
C16_PhaseOrder ==
    [][ \A r \in DOMAIN req :
          req[r].kind = "batch" =>
            /\ PhaseOf(pc'[r], req[r], res'[r].finalized)
                  \in PhasesAfter(PhaseOf(pc[r], req[r], res[r].finalized), req[r])
            /\ (~res[r].finalized /\ res'[r].finalized) =>
                  /\ PhaseOf(pc[r], req[r], FALSE) = "Rendering"
                  /\ \A i \in 1..Len(savedStudents[r]) :
                        hist[r].rows[savedStudents[r][i].row].attempts = 1
            /\ res[r].finalized =>
                  /\ res'[r].finalized
                  /\ archive'[r] = archive[r]
                  /\ pc'[r] = "done" ]_vars

\* a batch with a photo archive and two students completed, one of them failed
C16_Witness ==
    \E r \in DOMAIN req :
        /\ req[r].kind = "batch" /\ req[r].photoZip.present
        /\ pc[r] = "done" /\ res[r].finalized
        /\ Len(savedStudents[r]) = 2
        /\ \E k \in Rows(r) : hist[r].rows[k].outcome = "Failed"
        /\ \E k \in Rows(r) : hist[r].rows[k].outcome = "Rendered"

----------------------------------------------------------------------------
(* Properties of concurrent generation requests.                            *)

\* the requests whose ledger save for their (only) student succeeded
LedgerSaves ==
    {r \in DOMAIN req : hist[r].rows # <<>> /\ hist[r].rows[1].ledgerSave = "ok"}

\* by how much S1's card_generation_count grew since the requests arrived
CountIncrease ==
    (IF Has(db, Sid1) THEN db[Sid1].card_generation_count ELSE 0)
    - (IF Has(db0, Sid1) THEN db0[Sid1].card_generation_count ELSE 0)

AllDone == \A r \in DOMAIN req : pc[r] = "done"

\* C17: the ledger update is an unlocked read-modify-write.  When the requests
\* have ended, the count has grown by at least 1 if any ledger save succeeded
\* and by at most the number of successful saves; updates can be lost (the
\* witness: two successful saves, growth 1) but none is invented.
C17_UnlockedLedgerUpdate ==
    AllDone =>
        /\ LedgerSaves = {} => CountIncrease = 0
        /\ LedgerSaves # {} => CountIncrease >= 1
        /\ CountIncrease <= Cardinality(LedgerSaves)

\* both requests rendered S1 and saved its ledger, and the count grew by 1 only
C17_Witness ==
    /\ AllDone
    /\ Cardinality(LedgerSaves) = 2
    /\ \A r \in DOMAIN req : hist[r].rows[1].outcome = "Rendered"
    /\ CountIncrease = 1

----------------------------------------------------------------------------
(* Properties of the photo extractor.                                       *)

\* the student identifier an entry name stands for: <<id>>, or <<>> for a
\* name that is a directory, is no image, or has a stem of one character
KeyOfName(name) ==
    CASE name = S1jpg    -> <<Sid1>>
      [] name = S2PNG    -> <<Sid2>>
      [] name = NestedS1 -> <<Sid1>>
      [] OTHER           -> <<>>

\* the entries that stand for a student and whose read and upload succeed
Registered ==
    {i \in 1..Len(zipIn.files) :
        KeyOfName(zipIn.files[i].name) # <<>> /\ zipIn.files[i].fate = "uploads"}

\* C18: the extractor starts the registration of every qualifying entry
\* without waiting for the others, returns only after every entry's attempt
\* has completed, and an entry whose read or upload fails does not keep the
\* other entries from being processed and entered in the map.
C18_ExtractAllConcurrently ==
    /\ extractPc = "awaiting" =>
          \A i \in 1..Len(zipIn.files) :
              KeyOfName(zipIn.files[i].name) # <<>> => tasks[i] # "none"
    /\ extractPc = "returned" =>
          /\ \A i \in 1..Len(tasks) : tasks[i] \notin InFlight
          /\ \A i \in Registered :
                /\ tasks[i] = "stored"
                /\ Has(photoCloudinaryMap, KeyOfName(zipIn.files[i].name)[1])

\* the first entry's registration failed, the second entry is in the map
C18_Witness ==
    /\ extractPc = "returned" /\ Len(tasks) = 2
    /\ tasks[1] = "failed" /\ tasks[2] = "stored"
    /\ Has(photoCloudinaryMap, KeyOfName(zipIn.files[2].name)[1])

\* C19: the returned map has a key exactly for each entry that is no
\* directory, has an image extension (in any letter case), has a stem of at
\* least two characters and was uploaded; the key is the stem.  An entry with
\* a shorter stem is skipped and raises no error.
C19_PhotoMapKeys ==
    extractPc = "returned" =>
        /\ DOMAIN photoCloudinaryMap =
              {KeyOfName(zipIn.files[i].name)[1] : i \in Registered}
        /\ \A i \in 1..Len(zipIn.files) :
              zipIn.files[i].name = Ajpg => tasks[i] = "skipped"

\* a.jpg was skipped and S2.PNG entered under S2
C19_Witness ==
    /\ extractPc = "returned"
    /\ \E i \in 1..Len(zipIn.files) :
          zipIn.files[i].name = Ajpg /\ tasks[i] = "skipped"
    /\ \E i \in 1..Len(zipIn.files) :
          zipIn.files[i].name = S2PNG /\ tasks[i] = "stored"
    /\ DOMAIN photoCloudinaryMap = {Sid2}

----------------------------------------------------------------------------
(* Properties of the image fetch.                                           *)

\* C20: a failing remote fetch is retried a bounded number of times (at most
\* 2 attempts in all) with a fixed delay before each further attempt; only a
\* URL of the CDN is retried in its optimized variant; when every attempt has
\* failed the error surfaced identifies the original reference; the fetch
\* ends after finitely many attempts.
C20_BoundedRetry ==
    fetchPc = "done" =>
        /\ Len(fetchRun.log) \in 1..2
        /\ fetchRun.log[1].url = fetchIn.url
        /\ \A k \in 2..Len(fetchRun.log) :
              /\ fetchRun.log[k].waited
              /\ fetchRun.log[k].url \in {fetchIn.url, OptimizedUrl(fetchIn.url)}
              /\ fetchRun.log[k].url # fetchIn.url => IsCloudinaryUrl(fetchIn.url)
        /\ ~fetchRun.out.ok => fetchRun.out.of = fetchIn.url

----------------------------------------------------------------------------
(* Properties of the template image.                                        *)

\* C21: the template image is fetched once per batch and not once per
\* student, and a failure to load it is fatal to the whole batch: when a
\* student failed at the template load, no student of the batch is rendered.
C21_TemplateFetchedOnce ==
    \A r \in DOMAIN req :
        req[r].kind = "batch" =>
            /\ hist[r].templateLoads <= 1
            /\ (\E k \in Rows(r) : hist[r].rows[k].outcome = "Failed")
                  => \A k \in Rows(r) : hist[r].rows[k].outcome # "Rendered"

----------------------------------------------------------------------------
(* Properties of the compositor on a canvas whose calls may throw.          *)

\* C22: the compositor raises only when the front template cannot be loaded;
\* a failure in any later step (photo load, photo or placeholder drawing,
\* text drawing, back-image load or draw) is absorbed, the pair is returned,
\* and a failing back side degrades to the empty canvas.
C22_OnlyTemplateRaises ==
    composePc = "done" =>
        /\ canvas.result = "threw" <=> job.templateFront = "fails"
        /\ (canvas.result = "pair"
              /\ (job.templateBack = "fails" \/ "backDraw" \in job.faults))
             => canvas.back = "blank"

----------------------------------------------------------------------------
(* Properties of the line splitter.                                         *)

Quote == "\""

\* the number of quote characters among the first n characters of s
QuotesBefore(s, n) == Cardinality({q \in 1..n : s[q] = Quote})

\* a comma outside the quoted regions: an even number of quotes precedes it
Cuts(line) ==
    {p \in 1..Len(line) : line[p] = "," /\ QuotesBefore(line, p - 1) % 2 = 0}

\* the k-th stretch of the line between two neighbouring cuts
Segment(line, k) ==
    LET cuts  == Cuts(line)
        nth(n) == CHOOSE p \in cuts : Cardinality({q \in cuts : q < p}) = n - 1
        lo    == IF k = 1 THEN 1 ELSE nth(k - 1) + 1
        hi    == IF k = Cardinality(cuts) + 1 THEN Len(line) ELSE nth(k) - 1
    IN  SubSeq(line, lo, hi)

\* the length of the run of quotes that starts at position p of s
RunLength(s, p) ==
    LET ends == {e \in p..Len(s) : \A q \in p..e : s[q] = Quote}
    IN  Cardinality(ends)

Quotes(n) == [i \in 1..n |-> Quote]

\* the content of a stretch: its other characters as they are, and for every
\* run of quotes one literal quote per doubled quote inside a quoted region
\* (the quote that opens a region is not part of a pair)
RECURSIVE Content(_, _)
Content(s, p) ==
    IF p > Len(s) THEN <<>>
    ELSE IF s[p] # Quote THEN <<s[p]>> \o Content(s, p + 1)
    ELSE LET n      == RunLength(s, p)
             inside == QuotesBefore(s, p - 1) % 2 = 1
             pairs  == IF inside THEN n \div 2 ELSE (n - 1) \div 2
         IN  Quotes(pairs) \o Content(s, p + n)

\* C23: parseCSVLine returns on every line, balanced or not, one more field
\* than the line has commas outside double-quoted regions; it cuts exactly at
\* those commas, so a comma inside quotes stays in its field, and a doubled
\* quote inside a quoted field yields one literal quote.
C23_SplitAtOutsideCommas ==
    linePc = "returned" =>
        /\ Len(lineOut) = 1 + Cardinality(Cuts(lineIn))
        /\ \A k \in 1..Len(lineOut) :
              lineOut[k] = trim(Content(Segment(lineIn, k), 1))

C23_Witness ==
    /\ linePc = "returned"
    /\ lineIn = <<Quote, ",", Quote, Quote, Quote, ",">>
    /\ lineOut = << <<",", Quote>>, <<>> >>

----------------------------------------------------------------------------
(* Properties of the identifiers of one roster.                             *)

\* C24: the records parsed from one roster have pairwise distinct student
\* identifiers, and so each student_id reaches the render loop at most once
\* per batch.
C24_DistinctIdentifiers ==
    \A r \in DOMAIN req :
        req[r].kind = "batch" =>
            /\ \A i, j \in DOMAIN students[r] :
                  i # j => students[r][i].student_id # students[r][j].student_id
            /\ \A i, j \in DOMAIN savedStudents[r] :
                  i # j => savedStudents[r][i].doc.data.student_id
                              # savedStudents[r][j].doc.data.student_id

----------------------------------------------------------------------------
(* Properties of the text fields on the front side.                         *)

\* the fields that have a text on the finished front side
DrawnFields == {canvas.texts[k].field : k \in DOMAIN canvas.texts}

\* C25: a text field is drawn exactly when the student record has a
\* non-empty value for it, the value is not the 'N/A' sentinel, and the
\* coordinate map has an entry for it; on both generation paths a field that
\* holds the sentinel draws nothing.
C25_SentinelNeverDrawn ==
    (composePc = "done" /\ canvas.result = "pair") =>
        \A f \in FieldNames :
            f \in DrawnFields <=>
                /\ FieldText(job.student, f) # <<>>
                /\ FieldText(job.student, f) # DefNA
                /\ f \in job.coordinates.fields

----------------------------------------------------------------------------
(* Properties of the stored generation metadata.                            *)

\* the generation metadata of a stored document is consistent
LedgerConsistent(d) ==
    d.card_generated =>
        /\ d.card_generation_count >= 1
        /\ d.first_card_generated # 0
        /\ d.last_card_generated # 0
        /\ d.first_card_generated <= d.last_card_generated

\* C26: after any sequence of generations, a stored student with
\* card_generated = true has card_generation_count >= 1 and both dates set
\* with first_card_generated <= last_card_generated; the count never
\* decreases and first_card_generated never changes once it is set.
C26_LedgerMonotone ==
    [][ \A sid \in DOMAIN db' :
          /\ LedgerConsistent(db'[sid])
          /\ Has(db, sid) =>
               /\ db'[sid].card_generation_count >= db[sid].card_generation_count
               /\ db[sid].first_card_generated # 0 =>
                    db'[sid].first_card_generated = db[sid].first_card_generated
      ]_vars

----------------------------------------------------------------------------
(* What a rejected batch request leaves behind.                             *)

BatchAnswered(r, codes) == req[r].kind = "batch" /\ res[r].status \in codes

StoreUntouched == db = db0 /\ assets = 0

\* C27 as stated: a batch request answered 400, 404 or 500 has created or
\* modified no student record and registered no photo.
C27_Original ==
    \A r \in DOMAIN req : BatchAnswered(r, {400, 404, 500}) => StoreUntouched

\* C27 amended: a batch request answered 400, and a disk-variant batch
\* answered 404, has created or modified no student record and registered no
\* photo; a batch answered 404 by the cloudinary variant, or 500, may have
\* persisted its roster and registered its photos, but has changed no
\* student's generation metadata.
C27_Amended ==
    \A r \in DOMAIN req :
        /\ BatchAnswered(r, {400}) => StoreUntouched
        /\ (BatchAnswered(r, {404}) /\ req[r].variant = "disk") => StoreUntouched
        /\ BatchAnswered(r, {404, 500}) => LedgerUntouched

\* a batch answered 404 after it uploaded a photo, saved the roster fields of a
\* student who has a card already and created another student
C27_Witness ==
    \E r \in DOMAIN req :
        /\ BatchAnswered(r, {404})
        /\ assets > 0 /\ db # db0
        /\ \E k \in Rows(r) :
              /\ hist[r].rows[k].rosterSave = "ok"
              /\ Has(db0, students[r][k].student_id)
              /\ db0[students[r][k].student_id].card_generated

----------------------------------------------------------------------------
(* What the roster-persistence step changes in a stored student.            *)

\* request r's roster loop has just saved row k
RosterSaved(r, k) ==
    /\ k \in Rows(r)
    /\ hist[r].rows[k].rosterSave = "none"
    /\ hist'[r].rows[k].rosterSave = "ok"

\* C28: saving the roster row of an already persisted student changes only
\* that student's roster fields, and its photo fields when the batch has a
\* photo for the identifier: the generation metadata is unchanged, no other
\* student is touched, and when the batch has no photo for the identifier the
\* stored photo reference and has_photo are unchanged.
C28_RosterStepFrame ==
    [][ \A r \in DOMAIN req : \A k \in DOMAIN students[r] :
          LET sid == students[r][k].student_id
          IN  (RosterSaved(r, k) /\ Has(db, sid)) =>
                 /\ LedgerOf(db'[sid]) = LedgerOf(db[sid])
                 /\ \A other \in DOMAIN db : other # sid => db'[other] = db[other]
                 /\ ~Has(photoMap[r], sid) =>
                       /\ db'[sid].photo_url = db[sid].photo_url
                       /\ db'[sid].has_photo = db[sid].has_photo
      ]_vars

----------------------------------------------------------------------------
(* The photo map and the order in which the uploads complete.               *)

\* the tasks that are at an await and will store their upload in the map
WillStore ==
    {i \in 1..Len(tasks) : tasks[i] \in InFlight /\ zipIn.files[i].fate = "uploads"}

\* C29: the photo map the extractor returns is determined by the archive and
\* the per-entry outcomes alone, whatever the order in which the concurrent
\* uploads complete, also when several entries share a stem: any two stores
\* that are still to come give the same map in either order.
C29_CompletionOrderIrrelevant ==
    extractPc = "awaiting" =>
        \A i, j \in WillStore :
            Store(Store(photoCloudinaryMap, i), j)
               = Store(Store(photoCloudinaryMap, j), i)

----------------------------------------------------------------------------
(* Properties of the default template.                                      *)

Defaults(coll) == {t \in DOMAIN coll : coll[t].isDefault}

\* request r's set-default has just been answered with success
SetDefaultAnswered(r) ==
    /\ tReq[r].kind = "set-default"
    /\ tPc[r] = "set" /\ tPc'[r] = "done"
    /\ tRes'[r].success

\* C30: after any interleaving of uploads with setAsDefault and set-default
\* requests at most one template has isDefault = true, and when a set-default
\* request for a template is answered with success, that template is the
\* default.
C30_SingleDefault ==
    [][ /\ Cardinality(Defaults(templateDb')) <= 1
        /\ \A r \in DOMAIN tReq :
              SetDefaultAnswered(r) => Defaults(templateDb') = {tReq[r].id}
      ]_vars

====
